---- MODULE Spec2Model ----
(***************************************************************************)
(* Copy-on-write interception engine of immutability-utils.                *)
(*                                                                         *)
(* The library is synchronous and single-threaded, so the state machine is *)
(* an interpreter: external code performs one access at a time on          *)
(* cell.current, and every access runs through the Proxy traps of          *)
(* immutable() in small steps (clone, disable, underlying operation,       *)
(* finally, swap, listeners).  The wrapped value is an instance of the     *)
(* example's Data class, extended with a few members whose bodies write,   *)
(* throw or reach the cell, so that every path of the traps is exercised.  *)
(*                                                                         *)
(* Specifications: Spec (accesses on a cell whose enabled flag, key list   *)
(* and listeners change between accesses), SpecFail (a clone hook and      *)
(* listeners that throw), SpecCalls (runs of successive method calls),     *)
(* SpecConfig (depth and respectCustom changed between accesses),          *)
(* SpecClone and SpecCloneNegative (extClone on graphs of plain objects,   *)
(* the latter with depths below zero), SpecMut (immutableMut), SpecGetter  *)
(* (isGetter on prototype chains), SpecChain (chained calls), SpecDepth    *)
(* (satisfiesDepth), SpecReject (writes to members that have a getter and  *)
(* no setter), SpecListen (listeners that write and call through the cell  *)
(* they are given) and SpecHeld (accesses on values the caller kept: an    *)
(* earlier surface, a method read earlier, the receiver a method returned).*)
(***************************************************************************)
EXTENDS Integers, Sequences, FiniteSets, TLC

VARIABLES
    heap,      \* allocated objects, by identity: heap[i] is the state of object i
    cell,      \* the ImmutableRef record
    stack,     \* call stack of the running access (top is the last element)
    ret,       \* value returned by the last completed call
    exc,       \* TRUE while an exception propagates
    op,        \* the external access in progress / last completed, with its log
    opsDone,   \* number of external accesses started
    cloneCallCallback, \* what the example's clone hook calls first: "count" or "throw"
    held       \* a value the external code keeps in a variable of its own

vars == <<heap, cell, stack, ret, exc, op, opsDone, cloneCallCallback, held>>

---------------------------------------------------------------------------
(* Bounds and inputs *)

MaxOps == 2
MaxListeners == 2
InitNumber == 0

\* values written by the external code, per member: the value already stored
\* and a new one for the stored member, a rejected one for the clamped setter
ValsFor(prop) ==
    CASE prop = "number" -> {InitNumber, 2}
      [] prop = "clampedSetter" -> {-1}
      [] OTHER -> {2}
Args == {1}
KeyPool == {"doubleValue", "increment", "bumpGetter", "number"}

---------------------------------------------------------------------------
(* Values and references *)

Raw(i) == [id |-> i, px |-> FALSE]
Px(i) == [id |-> i, px |-> TRUE]

Undef == [t |-> "undef", n |-> 0, r |-> Raw(0), m |-> ""]
Num(n) == [t |-> "num", n |-> n, r |-> Raw(0), m |-> ""]
Bool(b) == [t |-> "bool", n |-> IF b THEN 1 ELSE 0, r |-> Raw(0), m |-> ""]
RefVal(r) == [t |-> "ref", n |-> 0, r |-> r, m |-> ""]
FnVal(m) == [t |-> "fn", n |-> 0, r |-> Raw(0), m |-> m]
WrapperVal(o, m) == [t |-> "wrapper", n |-> 0, r |-> Raw(o), m |-> m]

DepthMax == [max |-> TRUE, n |-> 0]
DepthOf(n) == [max |-> FALSE, n |-> n]

---------------------------------------------------------------------------
(* The wrapped class: property descriptors along the prototype chain *)

NoDesc == [has |-> FALSE, data |-> FALSE, fn |-> FALSE, get |-> FALSE, set |-> FALSE]
DataDesc(fn) == [has |-> TRUE, data |-> TRUE, fn |-> fn, get |-> FALSE, set |-> FALSE]
AccDesc(g, s) == [has |-> TRUE, data |-> FALSE, fn |-> FALSE, get |-> g, set |-> s]

Methods == {"increment", "doubleIncrement", "doubleValue", "setViaProperty",
            "clone", "failMethod", "viaCell"}
Getters == {"numberGetter", "bumpGetter", "failGetter"}
Setters == {"numberSetter", "clampedSetter", "failSetter"}

\* Objects of an arbitrary prototype chain (specification SpecGetter): there
\* heap[o] holds the prototype of o and the descriptor of its own member
\* MemberName, if it has one.
ChainLen == 3
MemberName == "y"
ChainObject(i) == "o" \o ToString(i)
ChainObjects == {ChainObject(i) : i \in 1..ChainLen}

getPrototypeOf(target) ==
    CASE target = "inst" -> "Data.prototype"
      [] target = "Data.prototype" -> "Object.prototype"
      [] target \in ChainObjects -> heap[target].proto
      [] OTHER -> "null"

getOwnPropertyDescriptor(target, prop) ==
    CASE target = "inst" /\ prop = "number" -> DataDesc(FALSE)
      [] target = "Data.prototype" /\ prop \in Methods -> DataDesc(TRUE)
      [] target = "Data.prototype" /\ prop \in Getters -> AccDesc(TRUE, FALSE)
      [] target = "Data.prototype" /\ prop \in Setters -> AccDesc(FALSE, TRUE)
      [] target \in ChainObjects /\ prop = MemberName -> heap[target].own
      [] OTHER -> NoDesc

\* (mutant) only the object's own member is looked at
isGetterOwnOnly(target, prop) == getOwnPropertyDescriptor(target, prop).get

RECURSIVE isGetter(_, _)
isGetter(target, prop) ==
    LET descriptor == getOwnPropertyDescriptor(target, prop) IN
    IF descriptor.has THEN descriptor.get
    ELSE IF target # "null"
         THEN LET proto == getPrototypeOf(target) IN
              IF proto # "null" THEN isGetter(proto, prop) ELSE FALSE
         ELSE FALSE

\* The descriptor an ordinary [[Get]] / [[Set]] finds for prop, walking the chain.
RECURSIVE Lookup(_, _)
Lookup(target, prop) ==
    IF target = "null" THEN NoDesc
    ELSE LET descriptor == getOwnPropertyDescriptor(target, prop) IN
         IF descriptor.has THEN descriptor ELSE Lookup(getPrototypeOf(target), prop)

isCallable(desc) == desc.has /\ desc.data /\ desc.fn

isCustomCloneable(target) == isCallable(Lookup(target, "clone"))

---------------------------------------------------------------------------
(* Member bodies: the example's Data class, plus members that write, throw *)
(* or reach the cell from inside the operation.                            *)

I(o, p, e) == [op |-> o, p |-> p, e |-> e]

Body(m) ==
    CASE m = "increment" -> <<I("set", "number", "num+arg"), I("ret", "", "this")>>
      [] m = "doubleIncrement" ->
            <<I("call", "increment", ""), I("call", "increment", ""), I("ret", "", "this")>>
      [] m = "doubleValue" -> <<I("ret", "", "double")>>
      [] m = "setViaProperty" -> <<I("set", "numberSetter", "arg"), I("ret", "", "this")>>
      [] m = "clone" -> <<I("new", "", "")>>
      [] m = "numberSetter" -> <<I("set", "number", "arg")>>
      [] m = "clampedSetter" -> <<I("setif", "number", "arg")>>
      [] m = "numberGetter" -> <<I("ret", "", "num")>>
      \* an accessor with a side effect
      [] m = "bumpGetter" -> <<I("set", "number", "num+1"), I("ret", "", "num")>>
      \* operations that write and then throw
      [] m = "failGetter" -> <<I("set", "number", "num+1"), I("throw", "", "")>>
      [] m = "failSetter" -> <<I("set", "number", "arg"), I("throw", "", "")>>
      [] m = "failMethod" -> <<I("set", "number", "num+arg"), I("throw", "", "")>>
      \* a method that writes through the cell instead of its receiver
      [] m = "viaCell" -> <<I("cellset", "number", "arg"), I("ret", "", "this")>>
      \* listeners that use the cell they are given (specification SpecListen):
      \* (r) => { if (r.current.number % 3 !== 0) r.current.number += 1 }
      [] m = "stepListener" -> <<I("cellstep", "number", "")>>
      \* (r) => { if (r.current.number % 3 !== 0) r.current.increment(1) }
      [] m = "callListener" -> <<I("cellcall", "increment", "")>>
      \* (r) => { r.current.number = r.current.number }
      [] m = "alwaysListener" -> <<I("cellcopy", "number", "")>>
      \* (r) => { if (r.cloneListeners.length < MaxListeners) r.cloneListeners.push(observer) }
      [] m = "pushListener" -> <<I("push", "", "")>>
      [] OTHER -> <<>>

---------------------------------------------------------------------------
(* Frames *)

BodyFrame(m, this, arg) ==
    [k |-> "body", m |-> m, this |-> this, arg |-> arg, pc |-> 1,
     o |-> 0, cloned |-> 0, path |-> "", ph |-> "", res |-> Undef, snap |-> <<>>]

TrigFrame(path, o, prop, arg, receiver) ==
    [k |-> "trig", m |-> prop, this |-> receiver, arg |-> arg, pc |-> 1,
     o |-> o, cloned |-> 0, path |-> path, ph |-> "cloning", res |-> Undef, snap |-> <<>>]

Top(stk) == stk[Len(stk)]
Pop(stk) == SubSeq(stk, 1, Len(stk) - 1)
SetTop(stk, f) == [stk EXCEPT ![Len(stk)] = f]

---------------------------------------------------------------------------
(* The machine as one record, so that the traps are functions on it *)

Cur == [heap |-> heap, cell |-> cell, stack |-> stack, ret |-> ret, exc |-> exc, op |-> op,
        cloneCallCallback |-> cloneCallCallback, held |-> held]

Apply(m) ==
    /\ heap' = m.heap
    /\ cell' = m.cell
    /\ stack' = m.stack
    /\ ret' = m.ret
    /\ exc' = m.exc
    /\ op' = m.op
    /\ cloneCallCallback' = m.cloneCallCallback
    /\ held' = m.held

\* The log of an external access: what it was, the state it started from and
\* what the engine did for it.  prev remembers the member of the access
\* completed before it when that member was listed in nonMutatingKeys then.
\* extCalls lists the calls of extClone with their arguments, hookLog the calls
\* of the clone hook with the argument received and the object returned (0
\* when the hook threw).  prevCfg is the depth and respectCustom the cell had
\* at the access completed before this one.  cbLog lists the calls of the
\* callback given to immutableMut, with the object each one received, chain
\* the further calls of a chained expression, made on the value returned by
\* the call before.
NoPrev == ""

CfgOf(c) == [depth |-> c.depth, custom |-> c.respectCustom]

PrevOf(o) ==
    IF o.status \in {"returned", "threw"}
    THEN IF o.kind \in {"read", "call"} /\ o.prop \in o.preKeys THEN o.prop ELSE NoPrev
    ELSE o.prev

PrevCfgOf(o) == IF o.status \in {"returned", "threw"} THEN o.preCfg ELSE o.prevCfg

IdleOp(prev) ==
    [status |-> "idle", kind |-> "", prop |-> "", arg |-> 0, pre |-> 0, preHeap |-> <<>>,
     preEnabled |-> TRUE, preKeys |-> {}, clones |-> <<>>, hookCalls |-> 0,
     swaps |-> 0, notified |-> <<>>, prev |-> prev, extCalls |-> <<>>, hookLog |-> <<>>,
     preCfg |-> CfgOf(cell), prevCfg |-> CfgOf(cell), cbLog |-> <<>>, chain |-> <<>>]

\* the log once the external code has changed the cell's configuration
IdleAfter(o) ==
    [IdleOp(PrevOf(o)) EXCEPT !.preCfg = PrevCfgOf(o), !.prevCfg = PrevCfgOf(o)]

NewOp(kind, prop, arg) ==
    [status |-> "running", kind |-> kind, prop |-> prop, arg |-> arg,
     pre |-> cell.current.id, preHeap |-> heap, preEnabled |-> cell.enabled,
     preKeys |-> cell.nonMutatingKeys, clones |-> <<>>, hookCalls |-> 0,
     swaps |-> 0, notified |-> <<>>, prev |-> PrevOf(op), extCalls |-> <<>>, hookLog |-> <<>>,
     preCfg |-> CfgOf(cell), prevCfg |-> PrevCfgOf(op), cbLog |-> <<>>, chain |-> <<>>]

Begin(kind, prop, arg) == [Cur EXCEPT !.op = NewOp(kind, prop, arg), !.ret = Undef]

---------------------------------------------------------------------------
(* Ordinary property access on an object (what Reflect.get / Reflect.set   *)
(* do on the Proxy's target).  m.stack is the stack to continue on.        *)

\* Reflect.set(target, prop, value, receiver): a stored member is written on
\* the receiver (a Proxy receiver without a defineProperty trap forwards to its
\* target); a setter runs with this = receiver; a member with a getter and no
\* setter rejects the write.
ReflectSet(m, target, prop, value, receiver) ==
    LET desc == Lookup("inst", prop) IN
    IF desc.data /\ ~desc.fn
    THEN [m EXCEPT !.heap = [@ EXCEPT ![receiver.id].number = value], !.ret = Bool(TRUE)]
    ELSE IF ~desc.data /\ desc.set
    THEN [m EXCEPT !.stack = Append(@, BodyFrame(prop, receiver, value))]
    ELSE [m EXCEPT !.ret = Bool(FALSE)]

\* Reflect.get(target, prop, receiver): a stored member is read from target; a
\* getter is found on target's chain and runs with this = receiver.
ReflectGet(m, target, prop, receiver) ==
    LET desc == Lookup("inst", prop) IN
    IF desc.data /\ ~desc.fn
    THEN [m EXCEPT !.ret = Num(m.heap[target].number)]
    ELSE IF desc.data /\ desc.fn
    THEN [m EXCEPT !.ret = FnVal(prop)]
    ELSE IF desc.get
    THEN [m EXCEPT !.stack = Append(@, BodyFrame(prop, receiver, 0))]
    ELSE [m EXCEPT !.ret = Undef]

---------------------------------------------------------------------------
(* extClone on an instance of the wrapped class.  The instance has stored  *)
(* members only, so lodash's clone, cloneDeep and the depth-bounded walk   *)
(* all yield a new object with the same stored members.                    *)

StructuralCopy(m, obj) ==
    [m EXCEPT !.heap = Append(@, m.heap[obj]), !.ret = RefVal(Raw(Len(m.heap) + 1))]

\* (mutant) the hook is called without the depth: obj.clone()
extCloneHookWithoutDepth(m, obj, depth, respectCustom) ==
    LET called == [m EXCEPT !.op.extCalls =
                       Append(@, [obj |-> obj, depth |-> depth, custom |-> respectCustom])]
    IN IF respectCustom /\ isCustomCloneable("inst")
       THEN [called EXCEPT !.stack = Append(@, BodyFrame("clone", Raw(obj), DepthMax))]
       ELSE StructuralCopy(called, obj)

extClone(m, obj, depth, respectCustom) ==
    LET called == [m EXCEPT !.op.extCalls =
                       Append(@, [obj |-> obj, depth |-> depth, custom |-> respectCustom])]
    IN IF respectCustom /\ isCustomCloneable("inst")
       THEN \* return obj.clone(depth)
            [called EXCEPT !.stack = Append(@, BodyFrame("clone", Raw(obj), depth))]
       ELSE StructuralCopy(called, obj)

---------------------------------------------------------------------------
(* The Proxy traps installed by applyProxy *)

\* (mutant) imRef.enabled = false is set before the clone is made
TriggerDisablesFirst(m, path, o, prop, arg, receiver) ==
    extClone([m EXCEPT !.stack = Append(@, TrigFrame(path, o, prop, arg, receiver)),
                       !.cell.enabled = FALSE],
             o, m.cell.depth, m.cell.respectCustom)

\* (mutant) the clone is made with the depth and respectCustom given at construction
TriggerConstructionConfig(m, path, o, prop, arg, receiver) ==
    extClone([m EXCEPT !.stack = Append(@, TrigFrame(path, o, prop, arg, receiver))],
             o, DepthMax, TRUE)

\* (mutant) the clone is taken of the target of imRef.current
TriggerClonesCurrent(m, path, o, prop, arg, receiver) ==
    extClone([m EXCEPT !.stack = Append(@, TrigFrame(path, o, prop, arg, receiver))],
             m.cell.current.id, m.cell.depth, m.cell.respectCustom)

\* const cloned = extClone(o, imRef.depth, imRef.respectCustom), as the first
\* statement of a triggered operation; the frame waits for the clone.
Trigger(m, path, o, prop, arg, receiver) ==
    extClone([m EXCEPT !.stack = Append(@, TrigFrame(path, o, prop, arg, receiver))],
             o, m.cell.depth, m.cell.respectCustom)

\* (mutant) the get trap does not consult imRef.nonMutatingKeys
trapGetIgnoresKeys(m, o, prop, receiver) ==
    IF ~m.cell.enabled THEN ReflectGet(m, o, prop, receiver)
    ELSE IF prop = "clone"
    THEN ReflectGet(m, o, prop, receiver)
    ELSE IF isGetter("inst", prop)
    THEN Trigger(m, "get", o, prop, 0, receiver)
    ELSE LET value == ReflectGet(m, o, prop, receiver) IN
         IF value.ret.t = "fn"
         THEN [value EXCEPT !.ret = WrapperVal(o, prop)]
         ELSE value

\* (mutant) the get trap has no accessor branch: a getter is read like a stored member
trapGetNoGetterBranch(m, o, prop, receiver) ==
    IF ~m.cell.enabled THEN ReflectGet(m, o, prop, receiver)
    ELSE IF prop \in m.cell.nonMutatingKeys \/ prop = "clone"
    THEN ReflectGet(m, o, prop, receiver)
    ELSE LET value == ReflectGet(m, o, prop, receiver) IN
         IF value.ret.t = "fn"
         THEN [value EXCEPT !.ret = WrapperVal(o, prop)]
         ELSE value

\* (mutant) every read that is not exempt runs the commit protocol
trapGetCommitsEveryRead(m, o, prop, receiver) ==
    IF ~m.cell.enabled THEN ReflectGet(m, o, prop, receiver)
    ELSE IF prop \in m.cell.nonMutatingKeys \/ prop = "clone"
    THEN ReflectGet(m, o, prop, receiver)
    ELSE Trigger(m, "get", o, prop, 0, receiver)

\* (mutant) the member named clone is treated like every other member
trapGetCloneNotExempt(m, o, prop, receiver) ==
    IF ~m.cell.enabled THEN ReflectGet(m, o, prop, receiver)
    ELSE IF prop \in m.cell.nonMutatingKeys
    THEN ReflectGet(m, o, prop, receiver)
    ELSE IF isGetter("inst", prop)
    THEN Trigger(m, "get", o, prop, 0, receiver)
    ELSE LET value == ReflectGet(m, o, prop, receiver) IN
         IF value.ret.t = "fn"
         THEN [value EXCEPT !.ret = WrapperVal(o, prop)]
         ELSE value

trapGet(m, o, prop, receiver) ==
    IF ~m.cell.enabled THEN ReflectGet(m, o, prop, receiver)
    ELSE IF prop \in m.cell.nonMutatingKeys \/ prop = "clone"
    THEN ReflectGet(m, o, prop, receiver)
    ELSE IF isGetter("inst", prop)
    THEN Trigger(m, "get", o, prop, 0, receiver)
    ELSE LET value == ReflectGet(m, o, prop, receiver) IN
         IF value.ret.t = "fn"
         THEN [value EXCEPT !.ret = WrapperVal(o, prop)]
         ELSE value

\* (mutant) the set trap does not look at imRef.enabled
trapSetAlways(m, o, prop, value, receiver) ==
    Trigger(m, "set", o, prop, value, receiver)

\* (mutant) a write to a member listed in nonMutatingKeys skips the clone
trapSetExemptKeys(m, o, prop, value, receiver) ==
    IF ~m.cell.enabled \/ prop \in m.cell.nonMutatingKeys
    THEN ReflectSet(m, o, prop, value, receiver)
    ELSE Trigger(m, "set", o, prop, value, receiver)

trapSet(m, o, prop, value, receiver) ==
    IF ~m.cell.enabled THEN ReflectSet(m, o, prop, value, receiver)
    ELSE Trigger(m, "set", o, prop, value, receiver)

\* (mutant) the wrapper looks at imRef.enabled when it is called
wrapperCallChecksEnabled(m, o, prop, arg) ==
    IF m.cell.enabled THEN Trigger(m, "call", o, prop, arg, Raw(0))
    ELSE [m EXCEPT !.stack = Append(@, BodyFrame(prop, Raw(o), arg))]

\* the function (...args) returned by the get trap for a callable member
wrapperCall(m, o, prop, arg) == Trigger(m, "call", o, prop, arg, Raw(0))

---------------------------------------------------------------------------
(* Access through a reference: a raw object or a Proxy surface *)

Get(m, r, prop) ==
    IF r.px THEN trapGet(m, r.id, prop, r) ELSE ReflectGet(m, r.id, prop, r)

\* (mutant) every reference is a Proxy surface
SetAlwaysTrapped(m, r, prop, value) == trapSet(m, r.id, prop, value, r)

Set(m, r, prop, value) ==
    IF r.px THEN trapSet(m, r.id, prop, value, r) ELSE ReflectSet(m, r.id, prop, value, r)

\* (mutant) the wrapper is bypassed: the method runs on the surface it was read from
InvokeUnwrapped(m, fn, this, arg) ==
    IF fn.t \in {"fn", "wrapper"}
    THEN [m EXCEPT !.stack = Append(@, BodyFrame(fn.m, this, arg))]
    ELSE [m EXCEPT !.exc = TRUE]

\* fn.call(this, arg)
Invoke(m, fn, this, arg) ==
    IF fn.t = "wrapper" THEN wrapperCall(m, fn.r.id, fn.m, arg)
    ELSE IF fn.t = "fn" THEN [m EXCEPT !.stack = Append(@, BodyFrame(fn.m, this, arg))]
    ELSE [m EXCEPT !.exc = TRUE]

\* r.prop(arg): read the member, then call what was read with this = r
CallMember(m, r, prop, arg) ==
    LET got == Get(m, r, prop) IN Invoke(got, got.ret, r, arg)

---------------------------------------------------------------------------
(* One statement of a member body, run in frame f (already advanced in m) *)

EvalNum(e, f, h) ==
    CASE e = "arg" -> f.arg
      [] e = "num+arg" -> h[f.this.id].number + f.arg
      [] e = "num+1" -> h[f.this.id].number + 1
      [] e = "num" -> h[f.this.id].number
      [] e = "double" -> h[f.this.id].number * 2
      [] OTHER -> 0

Exec(m, f, ins) ==
    CASE ins.op = "set" -> Set(m, f.this, ins.p, EvalNum(ins.e, f, m.heap))
      [] ins.op = "setif" ->
            IF f.arg >= 0 THEN Set(m, f.this, ins.p, EvalNum(ins.e, f, m.heap)) ELSE m
      [] ins.op = "call" -> CallMember(m, f.this, ins.p, f.arg)
      [] ins.op = "cellset" -> Set(m, m.cell.current, ins.p, EvalNum(ins.e, f, m.heap))
      [] ins.op = "cellstep" ->
            LET got == Get(m, m.cell.current, ins.p) IN
            IF got.ret.n % 3 # 0
            THEN Set(got, got.cell.current, ins.p, got.ret.n + 1)
            ELSE got
      [] ins.op = "cellcall" ->
            LET got == Get(m, m.cell.current, "number") IN
            IF got.ret.n % 3 # 0
            THEN CallMember(got, got.cell.current, ins.p, 1)
            ELSE got
      [] ins.op = "cellcopy" ->
            LET got == Get(m, m.cell.current, ins.p) IN
            Set(got, got.cell.current, ins.p, got.ret.n)
      [] ins.op = "push" ->
            IF Len(m.cell.cloneListeners) < MaxListeners
            THEN [m EXCEPT !.cell.cloneListeners = Append(@, 50 + Len(@) + 1)]
            ELSE m
      [] ins.op = "ret" ->
            [m EXCEPT !.stack = Pop(@),
                      !.ret = IF ins.e = "this" THEN RefVal(f.this)
                              ELSE Num(EvalNum(ins.e, f, m.heap))]
      [] ins.op = "throw" -> [m EXCEPT !.stack = Pop(@), !.exc = TRUE]
      \* cloneCallCallback(); return new Data(this.number)
      [] ins.op = "new" ->
            IF m.cloneCallCallback = "throw"
            THEN [m EXCEPT !.stack = Pop(@), !.exc = TRUE,
                           !.op.hookCalls = @ + 1,
                           !.op.hookLog = Append(@, [arg |-> f.arg, res |-> 0])]
            ELSE [m EXCEPT !.heap = Append(@, [number |-> m.heap[f.this.id].number]),
                           !.ret = RefVal(Raw(Len(m.heap) + 1)),
                           !.stack = Pop(@),
                           !.op.hookCalls = @ + 1,
                           !.op.hookLog = Append(@, [arg |-> f.arg,
                                                     res |-> Len(m.heap) + 1])]
      [] OTHER -> m

---------------------------------------------------------------------------
(* Initial state: immutable(new Data(InitNumber)) *)

immutable(obj, depth, nonMutatingKeys, respectCustom) ==
    [current |-> Px(obj), enabled |-> TRUE, cloneListeners |-> <<>>,
     depth |-> depth, respectCustom |-> respectCustom, nonMutatingKeys |-> nonMutatingKeys]

Init ==
    /\ heap = <<[number |-> InitNumber]>>
    /\ cell = immutable(1, DepthMax, {}, TRUE)
    /\ stack = <<>>
    /\ ret = Undef
    /\ exc = FALSE
    /\ op = IdleOp(NoPrev)
    /\ opsDone = 0
    /\ cloneCallCallback = "count"
    /\ held = Undef

---------------------------------------------------------------------------
(* External code: one access on cell.current at a time *)

Idle == stack = <<>> /\ op.status # "running"
CanStart == Idle /\ opsDone < MaxOps

WriteProps == {"number", "numberSetter", "clampedSetter", "failSetter"}
ReadProps == {"number", "numberGetter", "bumpGetter", "failGetter", "increment", "clone"}
CallProps == Methods

\* cell.current[prop] = value
ExtWrite(prop, value) ==
    /\ CanStart
    /\ Apply(Set(Begin("write", prop, value), cell.current, prop, value))
    /\ opsDone' = opsDone + 1

\* cell.current[prop]
ExtRead(prop) ==
    /\ CanStart
    /\ Apply(Get(Begin("read", prop, 0), cell.current, prop))
    /\ opsDone' = opsDone + 1

\* cell.current[prop](arg)
ExtCall(prop, arg) ==
    /\ CanStart
    /\ Apply(CallMember(Begin("call", prop, arg), cell.current, prop, arg))
    /\ opsDone' = opsDone + 1

\* the access has returned to, or thrown into, the external code
Finish ==
    /\ stack = <<>>
    /\ op.status = "running"
    /\ op' = [op EXCEPT !.status = IF exc THEN "threw" ELSE "returned"]
    /\ exc' = FALSE
    /\ UNCHANGED <<heap, cell, stack, ret, opsDone, cloneCallCallback, held>>

\* imRef.enabled = b
SetEnabled(b) ==
    /\ Idle
    /\ cell.enabled # b
    /\ cell' = [cell EXCEPT !.enabled = b]
    /\ op' = IdleAfter(op)
    /\ UNCHANGED <<heap, stack, ret, exc, opsDone, cloneCallCallback, held>>

\* imRef.nonMutatingKeys.push(k)
AddKey(k) ==
    /\ Idle
    /\ k \notin cell.nonMutatingKeys
    /\ cell' = [cell EXCEPT !.nonMutatingKeys = @ \cup {k}]
    /\ op' = IdleAfter(op)
    /\ UNCHANGED <<heap, stack, ret, exc, opsDone, cloneCallCallback, held>>

\* remove k from imRef.nonMutatingKeys
RemoveKey(k) ==
    /\ Idle
    /\ k \in cell.nonMutatingKeys
    /\ cell' = [cell EXCEPT !.nonMutatingKeys = @ \ {k}]
    /\ op' = IdleAfter(op)
    /\ UNCHANGED <<heap, stack, ret, exc, opsDone, cloneCallCallback, held>>

\* imRef.cloneListeners.push(listener)
AddListener ==
    /\ Idle
    /\ Len(cell.cloneListeners) < MaxListeners
    /\ cell' = [cell EXCEPT !.cloneListeners = Append(@, Len(@) + 1)]
    /\ op' = IdleAfter(op)
    /\ UNCHANGED <<heap, stack, ret, exc, opsDone, cloneCallCallback, held>>

---------------------------------------------------------------------------
(* Steps of the running access *)

Running == stack # <<>> /\ ~exc

\* next statement of the member body on top of the stack
BodyStep ==
    /\ Running
    /\ Top(stack).k = "body"
    /\ Top(stack).pc <= Len(Body(Top(stack).m))
    /\ LET f == Top(stack)
           m == [Cur EXCEPT !.stack = SetTop(@, [f EXCEPT !.pc = @ + 1])]
       IN Apply(Exec(m, f, Body(f.m)[f.pc]))
    /\ UNCHANGED opsDone

\* the body ran off its end: return undefined
BodyReturn ==
    /\ Running
    /\ Top(stack).k = "body"
    /\ Top(stack).pc > Len(Body(Top(stack).m))
    /\ stack' = Pop(stack)
    /\ ret' = Undef
    /\ UNCHANGED <<heap, cell, exc, op, opsDone, cloneCallCallback, held>>

\* (mutant) the underlying operation applied to the original instead of the clone
UnderlyingOnOriginal(m, f, cloned) ==
    CASE f.path = "set" -> ReflectSet(m, f.o, f.m, f.arg, Raw(f.o))
      [] f.path = "get" -> ReflectGet(m, f.o, f.m, f.this)
      [] OTHER -> Invoke(m, FnVal(f.m), Raw(f.o), f.arg)

\* the underlying operation of a triggered access, on the clone
Underlying(m, f, cloned) ==
    CASE f.path = "set" -> ReflectSet(m, cloned, f.m, f.arg, Raw(cloned))
      [] f.path = "get" -> ReflectGet(m, cloned, f.m, f.this)
      [] OTHER -> Invoke(m, FnVal(f.m), Raw(cloned), f.arg)

\* (mutant) the operation runs without imRef.enabled = false
TrigEnterNoDisable ==
    /\ Running
    /\ Top(stack).k = "trig"
    /\ Top(stack).ph = "cloning"
    /\ LET f == Top(stack)
           cloned == ret.r.id
           m == [Cur EXCEPT !.stack = SetTop(@, [f EXCEPT !.cloned = cloned, !.ph = "op",
                                                             !.snap = heap]),
                            !.op.clones = Append(@, [src |-> f.o, dst |-> cloned,
                                                     path |-> f.path, prop |-> f.m])]
       IN Apply(Underlying(m, f, cloned))
    /\ UNCHANGED opsDone

\* (mutant) imRef.current is set to the clone's surface before the operation
TrigEnterSwapsFirst ==
    /\ Running
    /\ Top(stack).k = "trig"
    /\ Top(stack).ph = "cloning"
    /\ LET f == Top(stack)
           cloned == ret.r.id
           m == [Cur EXCEPT !.stack = SetTop(@, [f EXCEPT !.cloned = cloned, !.ph = "op",
                                                             !.snap = heap]),
                            !.cell.enabled = FALSE,
                            !.cell.current = Px(cloned),
                            !.op.clones = Append(@, [src |-> f.o, dst |-> cloned,
                                                     path |-> f.path, prop |-> f.m])]
       IN Apply(Underlying(m, f, cloned))
    /\ UNCHANGED opsDone

\* try { imRef.enabled = false; result = <underlying operation> }
TrigEnter ==
    /\ Running
    /\ Top(stack).k = "trig"
    /\ Top(stack).ph = "cloning"
    /\ LET f == Top(stack)
           cloned == ret.r.id
           m == [Cur EXCEPT !.stack = SetTop(@, [f EXCEPT !.cloned = cloned, !.ph = "op",
                                                             !.snap = heap]),
                            !.cell.enabled = FALSE,
                            !.op.clones = Append(@, [src |-> f.o, dst |-> cloned,
                                                     path |-> f.path, prop |-> f.m])]
       IN Apply(Underlying(m, f, cloned))
    /\ UNCHANGED opsDone

\* finally { imRef.enabled = true }, on normal completion
TrigFinally ==
    /\ Running
    /\ Top(stack).k = "trig"
    /\ Top(stack).ph = "op"
    /\ LET f == Top(stack) IN
       /\ stack' = SetTop(stack, [f EXCEPT !.ph = "swap", !.res = ret])
       /\ cell' = [cell EXCEPT !.enabled = TRUE]
    /\ UNCHANGED <<heap, ret, exc, op, opsDone, cloneCallCallback, held>>

\* (mutant) the clone is stored without a new Proxy around it
TrigSwapUnwrapped ==
    /\ Running
    /\ Top(stack).k = "trig"
    /\ Top(stack).ph = "swap"
    /\ LET f == Top(stack) IN
       /\ stack' = SetTop(stack, [f EXCEPT !.ph = "notify", !.pc = 1])
       /\ cell' = [cell EXCEPT !.current = Raw(f.cloned)]
    /\ op' = [op EXCEPT !.swaps = @ + 1]
    /\ UNCHANGED <<heap, ret, exc, opsDone, cloneCallCallback, held>>

\* (mutant) a write that the underlying set reported as failed is not committed
TrigSwapIfAccepted ==
    /\ Running
    /\ Top(stack).k = "trig"
    /\ Top(stack).ph = "swap"
    /\ LET f == Top(stack)
           rejected == f.path = "set" /\ f.res = Bool(FALSE)
       IN /\ stack' = SetTop(stack, [f EXCEPT !.ph = "notify",
                                              !.pc = IF rejected
                                                     THEN Len(cell.cloneListeners) + 1
                                                     ELSE 1])
          /\ cell' = IF rejected THEN cell ELSE [cell EXCEPT !.current = Px(f.cloned)]
          /\ op' = IF rejected THEN op ELSE [op EXCEPT !.swaps = @ + 1]
    /\ UNCHANGED <<heap, ret, exc, opsDone, cloneCallCallback, held>>

\* setCurrent(imRef, applyProxy(cloned))
TrigSwap ==
    /\ Running
    /\ Top(stack).k = "trig"
    /\ Top(stack).ph = "swap"
    /\ LET f == Top(stack) IN
       /\ stack' = SetTop(stack, [f EXCEPT !.ph = "notify", !.pc = 1])
       /\ cell' = [cell EXCEPT !.current = Px(f.cloned)]
    /\ op' = [op EXCEPT !.swaps = @ + 1]
    /\ UNCHANGED <<heap, ret, exc, opsDone, cloneCallCallback, held>>

\* A listener is named by a number: a positive one counts its calls and reads
\* imRef.current, a negative one throws after that.  A listener named 10 or
\* more goes on by its tens: 1 stepListener, 2 callListener, 3 alwaysListener,
\* 4 pushListener; 5 is an observer that a pushListener registered.
ListenerThrows(l) == l < 0

ListenerBody(l) ==
    CASE l \div 10 = 1 -> "stepListener"
      [] l \div 10 = 2 -> "callListener"
      [] l \div 10 = 3 -> "alwaysListener"
      [] l \div 10 = 4 -> "pushListener"
      [] OTHER -> ""

\* The engine's call stack is finite: a call that would make it deeper than
\* MaxStack frames throws (RangeError: Maximum call stack size exceeded).
MaxStack == 9
StackExhausted(l) == ListenerBody(l) # "" /\ Len(stack) >= MaxStack

\* (mutant) the listeners are called from the last registered to the first
TrigNotifyReversed ==
    /\ Running
    /\ Top(stack).k = "trig"
    /\ Top(stack).ph = "notify"
    /\ Top(stack).pc <= Len(cell.cloneListeners)
    /\ LET f == Top(stack)
           listener == cell.cloneListeners[Len(cell.cloneListeners) + 1 - f.pc]
       IN /\ stack' = SetTop(stack, [f EXCEPT !.pc = @ + 1])
          /\ op' = [op EXCEPT !.notified =
                       Append(@, [l |-> listener, cur |-> cell.current.id,
                                  seen |-> heap[cell.current.id].number])]
          /\ exc' = ListenerThrows(listener)
    /\ UNCHANGED <<heap, cell, ret, opsDone, cloneCallCallback, held>>

\* (mutant) the listeners are not given the cell: none of them can act on it
TrigNotifyDetached ==
    /\ Running
    /\ Top(stack).k = "trig"
    /\ Top(stack).ph = "notify"
    /\ Top(stack).pc <= Len(cell.cloneListeners)
    /\ LET f == Top(stack)
           listener == cell.cloneListeners[f.pc]
       IN /\ stack' = SetTop(stack, [f EXCEPT !.pc = @ + 1])
          /\ op' = [op EXCEPT !.notified =
                       Append(@, [l |-> listener, cur |-> cell.current.id,
                                  seen |-> heap[cell.current.id].number,
                                  round |-> f.cloned])]
          /\ exc' = ListenerThrows(listener)
    /\ UNCHANGED <<heap, cell, ret, opsDone, cloneCallCallback, held>>

\* for (const listener of imRef.cloneListeners) listener(imRef)
TrigNotify ==
    /\ Running
    /\ Top(stack).k = "trig"
    /\ Top(stack).ph = "notify"
    /\ Top(stack).pc <= Len(cell.cloneListeners)
    /\ LET f == Top(stack)
           listener == cell.cloneListeners[f.pc]
           called == SetTop(stack, [f EXCEPT !.pc = @ + 1])
       IN /\ stack' = IF ListenerBody(listener) = "" \/ StackExhausted(listener)
                       THEN called
                       ELSE Append(called, BodyFrame(ListenerBody(listener), Raw(0), 0))
          /\ op' = [op EXCEPT !.notified =
                       Append(@, [l |-> listener, cur |-> cell.current.id,
                                  seen |-> heap[cell.current.id].number,
                                  round |-> f.cloned])]
          /\ exc' = (ListenerThrows(listener) \/ StackExhausted(listener))
    /\ UNCHANGED <<heap, cell, ret, opsDone, cloneCallCallback, held>>

\* (mutant) a method that returns its receiver gives the caller the new surface
TrigReturnSurface ==
    /\ Running
    /\ Top(stack).k = "trig"
    /\ Top(stack).ph = "notify"
    /\ Top(stack).pc > Len(cell.cloneListeners)
    /\ stack' = Pop(stack)
    /\ ret' = IF Top(stack).res = RefVal(Raw(Top(stack).cloned))
              THEN RefVal(cell.current)
              ELSE Top(stack).res
    /\ UNCHANGED <<heap, cell, exc, op, opsDone, cloneCallCallback, held>>

\* return result
TrigReturn ==
    /\ Running
    /\ Top(stack).k = "trig"
    /\ Top(stack).ph = "notify"
    /\ Top(stack).pc > Len(cell.cloneListeners)
    /\ stack' = Pop(stack)
    /\ ret' = Top(stack).res
    /\ UNCHANGED <<heap, cell, exc, op, opsDone, cloneCallCallback, held>>

\* (mutant) no finally clause: a throw leaves imRef.enabled as the operation set it
UnwindNoFinally ==
    /\ exc
    /\ stack # <<>>
    /\ stack' = Pop(stack)
    /\ UNCHANGED <<heap, cell, ret, exc, op, opsDone, cloneCallCallback, held>>

\* an exception leaves the frame on top of the stack; a triggered operation
\* that was inside its try block runs the finally clause on the way out
Unwind ==
    /\ exc
    /\ stack # <<>>
    /\ stack' = Pop(stack)
    /\ cell' = IF Top(stack).k = "trig" /\ Top(stack).ph = "op"
               THEN [cell EXCEPT !.enabled = TRUE]
               ELSE cell
    /\ UNCHANGED <<heap, ret, exc, op, opsDone, cloneCallCallback, held>>

Next ==
    \/ \E p \in WriteProps : \E v \in ValsFor(p) : ExtWrite(p, v)
    \/ \E p \in ReadProps : ExtRead(p)
    \/ \E p \in CallProps, a \in Args : ExtCall(p, a)
    \/ Finish
    \/ \E b \in BOOLEAN : SetEnabled(b)
    \/ \E k \in KeyPool : AddKey(k)
    \/ \E k \in KeyPool : RemoveKey(k)
    \/ AddListener
    \/ BodyStep
    \/ BodyReturn
    \/ TrigEnter
    \/ TrigFinally
    \/ TrigSwap
    \/ TrigNotify
    \/ TrigReturn
    \/ Unwind

Spec == Init /\ [][Next]_vars

---------------------------------------------------------------------------
(* Failing collaborators: the clone hook and the listeners are code of the *)
(* caller and may throw.  The accesses are those of Spec on fewer members. *)

\* cloneCallCallback = () => { ... }
SetCloneCallCallback(c) ==
    /\ Idle
    /\ cloneCallCallback # c
    /\ cloneCallCallback' = c
    /\ op' = IdleAfter(op)
    /\ UNCHANGED <<heap, cell, stack, ret, exc, opsDone, held>>

\* imRef.cloneListeners.push(() => { throw ... })
AddFailingListener ==
    /\ Idle
    /\ Len(cell.cloneListeners) < MaxListeners
    /\ cell' = [cell EXCEPT !.cloneListeners = Append(@, 0 - (Len(@) + 1))]
    /\ op' = IdleAfter(op)
    /\ UNCHANGED <<heap, stack, ret, exc, opsDone, cloneCallCallback, held>>

FailWriteProps == {"number", "numberSetter", "failSetter"}
FailReadProps == {"numberGetter", "failGetter"}
FailCallProps == {"increment", "failMethod", "viaCell"}

NextFail ==
    \/ \E p \in FailWriteProps : \E v \in ValsFor(p) : ExtWrite(p, v)
    \/ \E p \in FailReadProps : ExtRead(p)
    \/ \E p \in FailCallProps, a \in Args : ExtCall(p, a)
    \/ Finish
    \/ AddListener
    \/ AddFailingListener
    \/ \E c \in {"count", "throw"} : SetCloneCallCallback(c)
    \/ BodyStep
    \/ BodyReturn
    \/ TrigEnter
    \/ TrigFinally
    \/ TrigSwap
    \/ TrigNotify
    \/ TrigReturn
    \/ Unwind

SpecFail == Init /\ [][NextFail]_vars

---------------------------------------------------------------------------
(* Successive method calls: the passes of the example's executeClonableTest, *)
(* each one re-reading cell.current and calling a method of the class.     *)

MaxCalls == 4
SuccessiveCallProps == {"increment", "doubleIncrement", "setViaProperty", "doubleValue"}

\* testFn(dataRef) of one pass: dataRef.current[prop](arg)
PassCall(prop, arg) ==
    /\ Idle
    /\ opsDone < MaxCalls
    /\ Apply(CallMember(Begin("call", prop, arg), cell.current, prop, arg))
    /\ opsDone' = opsDone + 1

NextCalls ==
    \/ \E p \in SuccessiveCallProps, a \in Args : PassCall(p, a)
    \/ Finish
    \/ AddListener
    \/ BodyStep
    \/ BodyReturn
    \/ TrigEnter
    \/ TrigFinally
    \/ TrigSwap
    \/ TrigNotify
    \/ TrigReturn

SpecCalls == Init /\ [][NextCalls]_vars

---------------------------------------------------------------------------
(* Configuration changed by the caller between accesses: enabled, depth,   *)
(* respectCustom and nonMutatingKeys are plain fields of the cell.         *)
(* No listener is registered here.                                         *)

Depths == {DepthMax, DepthOf(0), DepthOf(1)}
ConfigKeys == {"increment", "numberGetter"}
ConfigWriteProps == {"number", "numberSetter"}
ConfigReadProps == {"numberGetter", "increment"}
ConfigCallProps == {"increment"}

\* imRef.depth = d
SetDepth(d) ==
    /\ Idle
    /\ cell.depth # d
    /\ cell' = [cell EXCEPT !.depth = d]
    /\ op' = IdleAfter(op)
    /\ UNCHANGED <<heap, stack, ret, exc, opsDone, cloneCallCallback, held>>

\* imRef.respectCustom = b
SetRespectCustom(b) ==
    /\ Idle
    /\ cell.respectCustom # b
    /\ cell' = [cell EXCEPT !.respectCustom = b]
    /\ op' = IdleAfter(op)
    /\ UNCHANGED <<heap, stack, ret, exc, opsDone, cloneCallCallback, held>>

\* const f = cell.current[prop]; ...; f(arg): the wrapper returned by the read
\* just completed is called, possibly after a change of configuration
ExtInvoke(arg) ==
    /\ CanStart
    /\ ret.t = "wrapper"
    /\ Apply(Invoke(Begin("invoke", ret.m, arg), ret, Raw(0), arg))
    /\ opsDone' = opsDone + 1

NextConfig ==
    \/ \E p \in ConfigWriteProps : \E v \in ValsFor(p) : ExtWrite(p, v)
    \/ \E p \in ConfigReadProps : ExtRead(p)
    \/ \E p \in ConfigCallProps, a \in Args : ExtCall(p, a)
    \/ \E a \in Args : ExtInvoke(a)
    \/ Finish
    \/ \E b \in BOOLEAN : SetEnabled(b)
    \/ \E k \in ConfigKeys : AddKey(k)
    \/ \E k \in ConfigKeys : RemoveKey(k)
    \/ \E d \in Depths : SetDepth(d)
    \/ \E b \in BOOLEAN : SetRespectCustom(b)
    \/ BodyStep
    \/ BodyReturn
    \/ TrigEnter
    \/ TrigFinally
    \/ TrigSwap
    \/ TrigReturn

SpecConfig == Init /\ [][NextConfig]_vars

---------------------------------------------------------------------------
(* extClone on graphs of plain objects.  Here heap[i] maps each key of     *)
(* GraphKeys to 0 (a primitive) or to the identity of another object; the  *)
(* objects have no clone member.  An object's own keys are walked in the   *)
(* order of GraphKeys.                                                     *)

NodeCount == 3
MaxDepth == 2
GraphKeys == <<"a", "b">>
KeySet == {GraphKeys[i] : i \in DOMAIN GraphKeys}
CloneDepths == {DepthMax} \cup {DepthOf(n) : n \in 0..MaxDepth}

\* value !== null && typeof value === "object"
IsObject(value) == value > 0

\* lodash clone: a new object with the same members (members are shared)
lodashClone(h, source) == [heap |-> Append(h, h[source]), res |-> Len(h) + 1]

\* lodash cloneDeep: every reachable object is copied once; the map from
\* originals to copies keeps cycles and shared members
RECURSIVE baseCloneDeep(_, _, _)
RECURSIVE baseCloneDeepKeys(_, _, _, _, _)
baseCloneDeep(h, stacked, value) ==
    IF value \in DOMAIN stacked
    THEN [heap |-> h, seen |-> stacked, res |-> stacked[value]]
    ELSE LET result == Len(h) + 1
             walked == baseCloneDeepKeys(Append(h, h[value]), stacked @@ (value :> result),
                                         value, result, 1)
         IN [heap |-> walked.heap, seen |-> walked.seen, res |-> result]

baseCloneDeepKeys(h, stacked, value, result, i) ==
    IF i > Len(GraphKeys) THEN [heap |-> h, seen |-> stacked]
    ELSE LET key == GraphKeys[i]
             sub == h[value][key]
         IN IF IsObject(sub)
            THEN LET c == baseCloneDeep(h, stacked, sub)
                 IN baseCloneDeepKeys([c.heap EXCEPT ![result][key] = c.res], c.seen,
                                      value, result, i + 1)
            ELSE baseCloneDeepKeys(h, stacked, value, result, i + 1)

lodashCloneDeep(h, source) ==
    LET c == baseCloneDeep(h, <<>>, source) IN [heap |-> c.heap, res |-> c.res]

\* _extClone(source, remainingDepth, seen) for an object source
RECURSIVE extCloneWalk(_, _, _, _)
RECURSIVE extCloneWalkKeys(_, _, _, _, _, _)
extCloneWalk(h, seen, source, remainingDepth) ==
    IF source \in DOMAIN seen
    THEN [heap |-> h, seen |-> seen, res |-> seen[source]]
    ELSE LET result == Len(h) + 1
             walked == extCloneWalkKeys(Append(h, h[source]), seen @@ (source :> result),
                                        source, result, remainingDepth, 1)
         IN [heap |-> walked.heap, seen |-> walked.seen, res |-> result]

\* for (const key of Reflect.ownKeys(source)), from the i-th key on
extCloneWalkKeys(h, seen, source, result, remainingDepth, i) ==
    IF i > Len(GraphKeys) THEN [heap |-> h, seen |-> seen]
    ELSE LET key == GraphKeys[i]
             value == h[source][key]
         IN IF IsObject(value)
            THEN IF remainingDepth <= 0
                 THEN extCloneWalkKeys([h EXCEPT ![result][key] = value], seen,
                                       source, result, remainingDepth, i + 1)
                 ELSE LET c == extCloneWalk(h, seen, value, remainingDepth - 1)
                      IN extCloneWalkKeys([c.heap EXCEPT ![result][key] = c.res], c.seen,
                                          source, result, remainingDepth, i + 1)
            ELSE extCloneWalkKeys(h, seen, source, result, remainingDepth, i + 1)

\* (mutant) the walk starts with one level more than asked for
extCloneGraphOneLevelMore(h, obj, depth, respectCustom) ==
    IF depth.max THEN lodashCloneDeep(h, obj)
    ELSE LET c == extCloneWalk(h, <<>>, obj, depth.n + 1)
         IN [heap |-> c.heap, res |-> c.res]

\* (mutant) a negative depth counts by its magnitude
extCloneGraphMagnitude(h, obj, depth, respectCustom) ==
    IF depth.max THEN lodashCloneDeep(h, obj)
    ELSE IF depth.n = 0 THEN lodashClone(h, obj)
    ELSE LET c == extCloneWalk(h, <<>>, obj, IF depth.n < 0 THEN 0 - depth.n ELSE depth.n)
         IN [heap |-> c.heap, res |-> c.res]

\* extClone(obj, depth, respectCustom) for a plain object: isCustomCloneable
\* is false, so the branch is chosen by depth alone
extCloneGraph(h, obj, depth, respectCustom) ==
    IF depth.max THEN lodashCloneDeep(h, obj)
    ELSE IF depth.n = 0 THEN lodashClone(h, obj)
    ELSE LET c == extCloneWalk(h, <<>>, obj, depth.n)
         IN [heap |-> c.heap, res |-> c.res]

\* the objects at the end of a path of exactly l members from object r
RECURSIVE AtLevelIn(_, _, _)
AtLevelIn(h, r, l) ==
    IF l = 0 THEN {r}
    ELSE UNION {{h[i][k] : k \in KeySet} \ {0} : i \in AtLevelIn(h, r, l - 1)}

ReachableIn(h, r) == UNION {AtLevelIn(h, r, l) : l \in 0..Len(h)}

\* the value to clone is object 1; every object of the graph is part of it
InitClone ==
    /\ heap \in [1..NodeCount -> [KeySet -> 0..NodeCount]]
    /\ ReachableIn(heap, 1) = 1..NodeCount
    /\ cell = immutable(1, DepthMax, {}, FALSE)
    /\ stack = <<>>
    /\ ret = Undef
    /\ exc = FALSE
    /\ op = IdleOp(NoPrev)
    /\ opsDone = 0
    /\ cloneCallCallback = "count"
    /\ held = Undef

\* const cloned = extClone(root, depth, false), root being object 1
CloneGraph(depth) ==
    /\ op.status = "idle"
    /\ LET c == extCloneGraph(heap, 1, depth, FALSE) IN
       /\ heap' = c.heap
       /\ ret' = RefVal(Raw(c.res))
    /\ op' = [NewOp("extClone", "", 0) EXCEPT !.status = "returned", !.arg = depth]
    /\ opsDone' = opsDone + 1
    /\ UNCHANGED <<cell, stack, exc, cloneCallCallback, held>>

NextClone == \E d \in CloneDepths : CloneGraph(d)

SpecClone == InitClone /\ [][NextClone]_vars

\* extClone(root, depth, false) with a depth below zero, next to depth 0
NegativeDepths == {DepthOf(0 - n) : n \in 1..MaxDepth}

NextCloneNegative == \E d \in NegativeDepths \cup {DepthOf(0)} : CloneGraph(d)

SpecCloneNegative == InitClone /\ [][NextCloneNegative]_vars

---------------------------------------------------------------------------
(* immutableMut(value, cb, respectCustom) on instances of the wrapped      *)
(* class.  A cell with listeners exists next to it; value is any instance  *)
(* allocated so far, the cell's target included.  The callback writes a    *)
(* member of the object it receives or calls one of its methods.           *)

MaxMuts == 3
MutCallbacks == {[path |-> "set", prop |-> "number", arg |-> 2],
                 [path |-> "set", prop |-> "numberSetter", arg |-> 2],
                 [path |-> "call", prop |-> "increment", arg |-> 1],
                 [path |-> "call", prop |-> "doubleValue", arg |-> 1]}

\* the activation of immutableMut, waiting for the clone and then for cb
MutFrame(value, cb) ==
    [k |-> "mut", m |-> cb.prop, this |-> Raw(value), arg |-> cb.arg, pc |-> 1,
     o |-> value, cloned |-> 0, path |-> cb.path, ph |-> "cloning", res |-> Undef,
     snap |-> <<>>]

\* const clone = extClone(value, "max", respectCustom)
immutableMut(m, value, cb, respectCustom) ==
    extClone([m EXCEPT !.stack = Append(@, MutFrame(value, cb))],
             value, DepthMax, respectCustom)

\* immutableMut(value, cb, respectCustom) called by the external code
ExtImmutableMut(value, cb, respectCustom) ==
    /\ Idle
    /\ opsDone < MaxMuts
    /\ Apply(immutableMut([Begin("mut", cb.prop, [cb |-> cb, respectCustom |-> respectCustom])
                              EXCEPT !.op.pre = value],
                          value, cb, respectCustom))
    /\ opsDone' = opsDone + 1

\* (mutant) the callback receives value itself
MutCallbackOnValue ==
    /\ Running
    /\ Top(stack).k = "mut"
    /\ Top(stack).ph = "cloning"
    /\ LET f == Top(stack)
           clone == ret.r.id
           m == [Cur EXCEPT !.stack = SetTop(@, [f EXCEPT !.cloned = clone, !.ph = "cb"]),
                            !.op.clones = Append(@, [src |-> f.o, dst |-> clone,
                                                     path |-> "mut", prop |-> f.m]),
                            !.op.cbLog = Append(@, f.o)]
       IN Apply(IF f.path = "set" THEN Set(m, Raw(f.o), f.m, f.arg)
                ELSE CallMember(m, Raw(f.o), f.m, f.arg))
    /\ UNCHANGED opsDone

\* cb(clone)
MutCallback ==
    /\ Running
    /\ Top(stack).k = "mut"
    /\ Top(stack).ph = "cloning"
    /\ LET f == Top(stack)
           clone == ret.r.id
           m == [Cur EXCEPT !.stack = SetTop(@, [f EXCEPT !.cloned = clone, !.ph = "cb"]),
                            !.op.clones = Append(@, [src |-> f.o, dst |-> clone,
                                                     path |-> "mut", prop |-> f.m]),
                            !.op.cbLog = Append(@, clone)]
       IN Apply(IF f.path = "set" THEN Set(m, Raw(clone), f.m, f.arg)
                ELSE CallMember(m, Raw(clone), f.m, f.arg))
    /\ UNCHANGED opsDone

\* return clone
MutReturn ==
    /\ Running
    /\ Top(stack).k = "mut"
    /\ Top(stack).ph = "cb"
    /\ stack' = Pop(stack)
    /\ ret' = RefVal(Raw(Top(stack).cloned))
    /\ UNCHANGED <<heap, cell, exc, op, opsDone, cloneCallCallback, held>>

NextMut ==
    \/ \E value \in DOMAIN heap, cb \in MutCallbacks, b \in BOOLEAN :
          ExtImmutableMut(value, cb, b)
    \/ MutCallback
    \/ MutReturn
    \/ Finish
    \/ AddListener
    \/ BodyStep
    \/ BodyReturn

SpecMut == Init /\ [][NextMut]_vars

---------------------------------------------------------------------------
(* isGetter on arbitrary prototype chains: every object of ChainObjects    *)
(* has a later object or null as its prototype and any kind of own member  *)
(* MemberName (none, a stored value, a method, an accessor with a getter,  *)
(* a setter, both or neither).                                             *)

OwnDescs == {NoDesc, DataDesc(FALSE), DataDesc(TRUE), AccDesc(TRUE, FALSE),
             AccDesc(FALSE, TRUE), AccDesc(TRUE, TRUE), AccDesc(FALSE, FALSE)}
GetterNames == {MemberName, "nonexistent"}

InitGetter ==
    /\ heap \in [ChainObjects -> [proto : ChainObjects \cup {"null"}, own : OwnDescs]]
    /\ \A i \in 1..ChainLen :
          heap[ChainObject(i)].proto \in {ChainObject(j) : j \in (i + 1)..ChainLen} \cup {"null"}
    /\ cell = immutable(1, DepthMax, {}, TRUE)
    /\ stack = <<>>
    /\ ret = Undef
    /\ exc = FALSE
    /\ op = IdleOp(NoPrev)
    /\ opsDone = 0
    /\ cloneCallCallback = "count"
    /\ held = Undef

\* isGetter(target, prop) called by the external code
ExtIsGetter(target, prop) ==
    /\ ret' = Bool(isGetter(target, prop))
    /\ op' = [IdleOp(NoPrev) EXCEPT !.status = "returned", !.kind = "isGetter",
                                    !.prop = prop, !.arg = target]
    /\ UNCHANGED <<heap, cell, stack, exc, opsDone, cloneCallCallback, held>>

NextGetter == \E target \in ChainObjects, prop \in GetterNames : ExtIsGetter(target, prop)

SpecGetter == InitGetter /\ [][NextGetter]_vars

---------------------------------------------------------------------------
(* Values the caller kept.  The external code can store cell.current, a    *)
(* method read through it or the value a call returned in a variable of    *)
(* its own and use it later, after other accesses; and it can go on        *)
(* calling on the value a call returned inside one expression.             *)

MaxHeldOps == 3
MaxChain == 2
HeldWriteProps == {"number", "numberSetter"}
HeldCallProps == {"increment", "doubleValue"}
ChainStartProps == {"increment", "setViaProperty", "doubleValue"}
ChainProps == {"increment", "doubleIncrement"}

HeldCanStart == Idle /\ opsDone < MaxHeldOps

\* cell.current[prop] = value
CurWrite(prop, value) ==
    /\ HeldCanStart
    /\ Apply(Set(Begin("write", prop, value), cell.current, prop, value))
    /\ opsDone' = opsDone + 1

\* cell.current[prop](arg)
CurCall(prop, arg) ==
    /\ HeldCanStart
    /\ Apply(CallMember(Begin("call", prop, arg), cell.current, prop, arg))
    /\ opsDone' = opsDone + 1

\* <value of the expression so far>[prop](arg), inside the same expression
ChainCall(prop, arg) ==
    /\ stack = <<>>
    /\ op.status = "running"
    /\ ~exc
    /\ op.kind = "call"
    /\ ret.t = "ref"
    /\ Len(op.chain) < MaxChain
    /\ Apply(CallMember([Cur EXCEPT !.op.chain = Append(@, [prop |-> prop, arg |-> arg])],
                        ret.r, prop, arg))
    /\ UNCHANGED opsDone

\* const s = cell.current
HoldCurrent ==
    /\ Idle
    /\ held # RefVal(cell.current)
    /\ held' = RefVal(cell.current)
    /\ op' = IdleAfter(op)
    /\ UNCHANGED <<heap, cell, stack, ret, exc, opsDone, cloneCallCallback>>

\* const f = cell.current[prop], for a method member
HoldMethod(prop) ==
    /\ HeldCanStart
    /\ LET got == Get(Begin("read", prop, 0), cell.current, prop)
       IN Apply([got EXCEPT !.held = got.ret])
    /\ opsDone' = opsDone + 1

\* const r = cell.current[prop](arg): the value of the call just made is kept
HoldResult ==
    /\ Idle
    /\ op.status = "returned"
    /\ op.kind = "call"
    /\ ret.t = "ref"
    /\ held # ret
    /\ held' = ret
    /\ op' = IdleAfter(op)
    /\ UNCHANGED <<heap, cell, stack, ret, exc, opsDone, cloneCallCallback>>

\* s[prop] = value
HeldWrite(prop, value) ==
    /\ HeldCanStart
    /\ held.t = "ref"
    /\ Apply(Set(Begin("heldwrite", prop, value), held.r, prop, value))
    /\ opsDone' = opsDone + 1

\* s[prop](arg)
HeldCall(prop, arg) ==
    /\ HeldCanStart
    /\ held.t = "ref"
    /\ Apply(CallMember(Begin("heldcall", prop, arg), held.r, prop, arg))
    /\ opsDone' = opsDone + 1

\* f(arg), f being the function the get trap returned for a method
HeldInvoke(arg) ==
    /\ HeldCanStart
    /\ held.t = "wrapper"
    /\ Apply(Invoke(Begin("invoke", held.m, arg), held, Raw(0), arg))
    /\ opsDone' = opsDone + 1

NextHeld ==
    \/ \E p \in HeldWriteProps : CurWrite(p, 2)
    \/ \E p \in HeldCallProps, a \in Args : CurCall(p, a)
    \/ HoldCurrent
    \/ HoldMethod("increment")
    \/ HoldResult
    \/ \E p \in HeldWriteProps : HeldWrite(p, 2)
    \/ \E p \in HeldCallProps, a \in Args : HeldCall(p, a)
    \/ \E a \in Args : HeldInvoke(a)
    \/ Finish
    \/ \E b \in BOOLEAN : SetEnabled(b)
    \/ AddListener
    \/ BodyStep
    \/ BodyReturn
    \/ TrigEnter
    \/ TrigFinally
    \/ TrigSwap
    \/ TrigNotify
    \/ TrigReturn

SpecHeld == Init /\ [][NextHeld]_vars

\* expressions of chained calls on cell.current, one after the other
NextChain ==
    \/ \E p \in ChainStartProps, a \in Args : CurCall(p, a)
    \/ \E p \in ChainProps, a \in Args : ChainCall(p, a)
    \/ Finish
    \/ AddListener
    \/ BodyStep
    \/ BodyReturn
    \/ TrigEnter
    \/ TrigFinally
    \/ TrigSwap
    \/ TrigNotify
    \/ TrigReturn

SpecChain == Init /\ [][NextChain]_vars

---------------------------------------------------------------------------
(* satisfiesDepth on depths and values around zero *)

DepthRange == 5
DepthInputs == {DepthMax} \cup {DepthOf(n) : n \in (0 - DepthRange)..DepthRange}
ValueInputs == (0 - DepthRange)..DepthRange

\* (mutant) a negative depth is compared as it is
satisfiesDepthUnclamped(depth, value) ==
    IF depth.max THEN TRUE ELSE value <= depth.n

satisfiesDepth(depth, value) ==
    IF depth.max THEN TRUE
    ELSE LET clamped == IF depth.n < 0 THEN 0 ELSE depth.n
         IN value <= clamped

\* satisfiesDepth(depth, value) called by the external code
ExtSatisfiesDepth(depth, value) ==
    /\ ret' = Bool(satisfiesDepth(depth, value))
    /\ op' = [IdleOp(NoPrev) EXCEPT !.status = "returned", !.kind = "satisfiesDepth",
                                    !.arg = [depth |-> depth, value |-> value]]
    /\ UNCHANGED <<heap, cell, stack, exc, opsDone, cloneCallCallback, held>>

NextDepth == \E depth \in DepthInputs, value \in ValueInputs : ExtSatisfiesDepth(depth, value)

SpecDepth == Init /\ [][NextDepth]_vars

---------------------------------------------------------------------------
(* Listeners that use the cell: a listener is code of the caller and gets  *)
(* imRef, so it can read and write imRef.current, call a method on it and  *)
(* change imRef.cloneListeners while the round that called it is running.  *)

ListenWriteProps == {"number"}
ListenCallProps == {"increment"}
ListenerKinds == 1..4

\* imRef.cloneListeners.push(listener), for a listener that uses the cell
AddCellListener(kind) ==
    /\ Idle
    /\ Len(cell.cloneListeners) < MaxListeners
    /\ cell' = [cell EXCEPT !.cloneListeners = Append(@, 10 * kind + Len(@) + 1)]
    /\ op' = IdleAfter(op)
    /\ UNCHANGED <<heap, stack, ret, exc, opsDone, cloneCallCallback, held>>

NextListen ==
    \/ \E p \in ListenWriteProps : \E v \in ValsFor(p) : ExtWrite(p, v)
    \/ \E p \in ListenCallProps, a \in Args : ExtCall(p, a)
    \/ Finish
    \/ AddListener
    \/ \E k \in ListenerKinds : AddCellListener(k)
    \/ BodyStep
    \/ BodyReturn
    \/ TrigEnter
    \/ TrigFinally
    \/ TrigSwap
    \/ TrigNotify
    \/ TrigReturn
    \/ Unwind

SpecListen == Init /\ [][NextListen]_vars

---------------------------------------------------------------------------
(* Writes that the object rejects: a member with a getter and no setter.   *)
(* Reflect.set reports the failure by returning false and throws nothing.  *)

RejectWriteProps == {"number", "numberSetter", "numberGetter", "bumpGetter"}

NextReject ==
    \/ \E p \in RejectWriteProps : \E v \in ValsFor(p) : ExtWrite(p, v)
    \/ Finish
    \/ \E b \in BOOLEAN : SetEnabled(b)
    \/ AddListener
    \/ BodyStep
    \/ BodyReturn
    \/ TrigEnter
    \/ TrigFinally
    \/ TrigSwap
    \/ TrigNotify
    \/ TrigReturn

SpecReject == Init /\ [][NextReject]_vars

---------------------------------------------------------------------------
(* Vocabulary of the properties *)

Finished == op.status \in {"returned", "threw"}
Returned == op.status = "returned"
Threw == op.status = "threw"

CurNum == heap[cell.current.id].number
PreNum == op.preHeap[op.pre].number

\* every object that existed when the access started still has the state it had
OldUntouched == \A i \in 1..Len(op.preHeap) : heap[i] = op.preHeap[i]

NotifiedListeners == [i \in 1..Len(op.notified) |-> op.notified[i].l]

\* one run of the commit protocol on the surface the access was made on
OneCommit ==
    /\ Len(op.clones) = 1
    /\ op.clones[1].src = op.pre
    /\ op.clones[1].dst > Len(op.preHeap)
    /\ op.swaps = 1
    /\ cell.current = Px(op.clones[1].dst)
    /\ NotifiedListeners = cell.cloneListeners

\* what the members of the wrapped class do to number
WriteEffect(prop, value, n) ==
    IF prop = "clampedSetter" /\ value < 0 THEN n ELSE value

CallEffect(prop, arg, n) ==
    CASE prop \in {"increment", "failMethod"} -> n + arg
      [] prop = "doubleIncrement" -> n + arg + arg
      [] prop \in {"setViaProperty", "viaCell"} -> arg
      [] OTHER -> n

---------------------------------------------------------------------------
(* C1: after a write through cell.current on an enabled cell, cell.current *)
(* reports the prior state with exactly that write applied, and the        *)
(* instance that was cell.current before the write (like every older       *)
(* instance) still reports its pre-write state.                            *)
C1_WriteReflectedOldUnchanged ==
    (Returned /\ op.kind = "write" /\ op.preEnabled) =>
        /\ CurNum = WriteEffect(op.prop, op.arg, PreNum)
        /\ OldUntouched

\* the second write of a sequence, made on the surface the first one installed
C1_Witness ==
    /\ Returned /\ op.kind = "write" /\ op.preEnabled
    /\ opsDone >= 2 /\ op.pre # 1
    /\ PreNum # InitNumber /\ CurNum # PreNum
    /\ heap[op.pre].number = PreNum

(* C2: on an enabled cell a write runs the commit protocol exactly once,   *)
(* one clone of the current instance, the write applied to that clone, one *)
(* swap of cell.current to the clone's new surface and one call of each    *)
(* listener, also when the member is listed in nonMutatingKeys, when the   *)
(* value is the one already stored and when a setter changes nothing.      *)
C2_WriteCommitsOnce ==
    (Returned /\ op.kind = "write" /\ op.preEnabled) =>
        /\ OneCommit
        /\ Len(heap) = Len(op.preHeap) + 1
        /\ heap[op.clones[1].dst].number = WriteEffect(op.prop, op.arg, PreNum)

\* a write of the stored value to a member listed in nonMutatingKeys, two listeners
C2_Witness ==
    /\ Returned /\ op.kind = "write" /\ op.preEnabled
    /\ op.prop \in op.preKeys
    /\ op.arg = PreNum
    /\ Len(cell.cloneListeners) = 2
    /\ Len(op.notified) = 2

(* C3: one non-exempt method call whose body performs writes and calls on  *)
(* its own object yields exactly one clone, one swap and one call of each  *)
(* listener, and cell.current afterwards reflects all of the body's writes.*)
C3_CallBatchesIntoOneClone ==
    (Returned /\ op.kind = "call" /\ op.preEnabled
        /\ op.prop \notin op.preKeys /\ op.prop # "clone") =>
        /\ OneCommit
        /\ Len(heap) = Len(op.preHeap) + 1
        /\ op.prop # "viaCell" => CurNum = CallEffect(op.prop, op.arg, PreNum)

\* a method that calls another method twice: two writes, one clone
C3_Witness ==
    /\ Returned /\ op.kind = "call" /\ op.preEnabled
    /\ op.prop = "doubleIncrement" /\ op.prop \notin op.preKeys
    /\ CurNum = PreNum + 2
    /\ Len(op.clones) = 1
    /\ Len(op.notified) = 2

\* the access is one the traps answer with the commit protocol
Triggering ==
    /\ op.status # "idle"
    /\ op.preEnabled
    /\ \/ op.kind = "write"
       \/ /\ op.prop \notin op.preKeys
          /\ op.prop # "clone"
          /\ op.kind = "call" \/ (op.kind = "read" /\ op.prop \in Getters)

\* a triggered operation is inside its try block
InOp == \E i \in DOMAIN stack : stack[i].k = "trig" /\ stack[i].ph = "op"

(* C4: when the triggering operation (accessor, method body or write)      *)
(* throws, cell.current is the surface it was before, the pre-operation    *)
(* instance has the state it had, and no listener was called, also when    *)
(* the operation wrote before it threw.                                    *)
C4_ThrowLeavesEverythingUnchanged ==
    (Threw /\ Triggering) =>
        /\ cell.current = Px(op.pre)
        /\ op.swaps = 0
        /\ op.notified = <<>>
        /\ heap[op.pre] = op.preHeap[op.pre]

(* C5: the cell is disabled exactly while a triggering operation runs: its *)
(* enabled flag is false from the start of the accessor, method body or    *)
(* write until that operation returns or throws, and true at every other   *)
(* moment of an access made on an enabled cell, so also after the access.  *)
C5_DisabledExactlyDuringOperation ==
    /\ (op.status # "idle" /\ op.preEnabled) => (cell.enabled <=> ~InOp)
    /\ (op.status # "idle" /\ ~op.preEnabled) => (~cell.enabled /\ ~InOp)

\* a triggered operation has thrown, and the cell is enabled again
C5_Witness ==
    /\ Threw /\ Triggering
    /\ Len(op.clones) = 1
    /\ cell.enabled

(* C6: while the external code has set enabled = false, a write or a       *)
(* method call through cell.current changes the existing instance in       *)
(* place, with no clone, no change of cell.current and no listener call;   *)
(* on an enabled cell (so also once enabled is set back to true) a write   *)
(* or non-exempt call clones, swaps and notifies once.                     *)
C6_DisabledMutatesInPlace ==
    /\ (Finished /\ ~op.preEnabled /\ op.kind \in {"write", "call"}) =>
          /\ op.clones = <<>>
          /\ op.swaps = 0
          /\ op.notified = <<>>
          /\ cell.current = Px(op.pre)
          /\ op.prop # "clone" => Len(heap) = Len(op.preHeap)
          /\ heap[op.pre].number =
                IF op.kind = "write" THEN WriteEffect(op.prop, op.arg, PreNum)
                ELSE CallEffect(op.prop, op.arg, PreNum)
    /\ (Returned /\ Triggering /\ op.kind \in {"write", "call"}) => OneCommit

\* the first instance was written in place while the cell was disabled (no
\* access on an enabled cell leaves the value 2 in an instance that stays
\* current), and the access made after enabling the cell again has cloned it
C6_Witness ==
    /\ Returned /\ op.preEnabled /\ op.kind \in {"write", "call"}
    /\ opsDone >= 2
    /\ op.pre = 1 /\ PreNum = 2
    /\ Len(op.clones) = 1 /\ cell.current # Px(1)

\* number of accesses in the body of a member that reach a trap of an enabled
\* cell when the body runs with the surface as its receiver
BodyTriggers(kind, prop) ==
    IF (kind = "call" /\ prop = "increment") \/ (kind = "read" /\ prop = "bumpGetter")
    THEN 1 ELSE 0

(* C7 as stated: reading or calling a member listed in nonMutatingKeys     *)
(* never triggers a clone, a swap or a listener call, whatever the         *)
(* member's body does.                                                     *)
C7_ExemptNeverClones ==
    (Finished /\ op.kind \in {"read", "call"} /\ op.prop \in op.preKeys) =>
        /\ op.clones = <<>>
        /\ op.swaps = 0
        /\ op.notified = <<>>
        /\ cell.current = Px(op.pre)

(* C7 amended: reading or calling a member listed in nonMutatingKeys does  *)
(* not itself trigger a commit; its body runs with the surface as receiver *)
(* on the still enabled cell, so a body that only reads stored members     *)
(* causes no clone, swap or listener call, and each write the body makes   *)
(* runs its own commit on a clone of the surface's target.  The list is    *)
(* read at every access: a key added at runtime is exempt from the next    *)
(* access on, a key no longer listed triggers on the next access.          *)
C7_ExemptAccessItselfNeverClones ==
    /\ (Finished /\ op.kind \in {"read", "call"} /\ op.prop \in op.preKeys) =>
          /\ \A i \in DOMAIN op.clones :
                /\ op.clones[i].path = "set"
                /\ op.clones[i].src = op.pre
          /\ Len(op.clones) = IF op.preEnabled THEN BodyTriggers(op.kind, op.prop) ELSE 0
          /\ op.swaps = Len(op.clones)
          /\ Len(op.notified) = Len(op.clones) * Len(cell.cloneListeners)
          /\ op.clones = <<>> => cell.current = Px(op.pre)
    /\ (Returned /\ Triggering /\ op.kind \in {"read", "call"}) =>
          /\ Len(op.clones) = 1
          /\ op.clones[1].prop = op.prop
          /\ op.clones[1].path \in {"get", "call"}

\* the member was called while listed (the previous access), then taken off the
\* list, and this call of it has cloned
C7_Witness ==
    /\ Returned /\ op.kind = "call" /\ op.preEnabled
    /\ op.prev = op.prop
    /\ op.prop \notin op.preKeys
    /\ Len(op.clones) = 1
    /\ cell.current # Px(op.pre)

(* C8: on an enabled cell, reading a getter member that is not exempt runs *)
(* exactly one clone, one swap of cell.current to a different instance and *)
(* one call of each listener, also when the getter changes no state.       *)
C8_GetterReadCommitsOnce ==
    (Returned /\ op.kind = "read" /\ op.prop \in Getters
        /\ op.prop \notin op.preKeys /\ op.preEnabled) =>
        /\ OneCommit
        /\ cell.current # Px(op.pre)
        /\ Len(heap) = Len(op.preHeap) + 1

\* a getter that changes nothing, with a listener registered
C8_Witness ==
    /\ Returned /\ op.kind = "read" /\ op.prop = "numberGetter" /\ op.preEnabled
    /\ heap[op.pre] = op.preHeap[op.pre]
    /\ CurNum = PreNum
    /\ cell.current # Px(op.pre)
    /\ Len(op.notified) >= 1

GetterEffect(prop, n) == IF prop \in {"bumpGetter", "failGetter"} THEN n + 1 ELSE n

(* C9: on an enabled read of a non-exempt accessor the accessor is         *)
(* evaluated against the clone: the pre-operation instance is unchanged,   *)
(* the new cell.current carries the accessor's state changes and the value *)
(* returned is computed from the clone's state.                            *)
C9_AccessorRunsOnClone ==
    (Returned /\ op.kind = "read" /\ op.prop \in Getters
        /\ op.prop \notin op.preKeys /\ op.preEnabled) =>
        /\ heap[op.pre] = op.preHeap[op.pre]
        /\ CurNum = GetterEffect(op.prop, PreNum)
        /\ ret = Num(CurNum)

\* the accesses of the operation go to the clone: its receiver is the clone and
\* its body uses only its receiver
OnReceiverClone(f) == f.path \in {"set", "call"} /\ f.m # "viaCell"

OpEffect(f, n) ==
    CASE f.path = "set" -> WriteEffect(f.m, f.arg, n)
      [] f.path = "call" -> CallEffect(f.m, f.arg, n)
      [] OTHER -> GetterEffect(f.m, n)

Entered(f) == f.k = "trig" /\ f.ph \in {"op", "swap", "notify"}

---------------------------------------------------------------------------
(* C11: a listener is called only after cell.current was replaced by the   *)
(* new surface; the listeners of a commit are called in registration       *)
(* order, each with the cell, through which it reads the new surface and   *)
(* the value that surface reports once the access is over; a returned      *)
(* committed access has called every listener, and an access that did not  *)
(* commit (disabled cell, exempt member, pass-through read, throw) has     *)
(* called none.                                                            *)
C11_ListenersAfterSwapInOrder ==
    /\ op.swaps = 0 => op.notified = <<>>
    /\ Len(op.notified) <= Len(cell.cloneListeners)
    /\ \A i \in DOMAIN op.notified :
          /\ op.notified[i].l = cell.cloneListeners[i]
          /\ op.swaps = 1
          /\ cell.current = Px(op.notified[i].cur)
          /\ op.notified[i].cur = op.clones[Len(op.clones)].dst
          /\ op.notified[i].cur # op.pre
          /\ op.notified[i].seen = CurNum
    /\ (Returned /\ op.swaps = 1) => NotifiedListeners = cell.cloneListeners
    /\ (Returned /\ Triggering /\ op.kind = "write") =>
          \A i \in DOMAIN op.notified :
              op.notified[i].seen = WriteEffect(op.prop, op.arg, PreNum)
    /\ (Finished /\ ~op.preEnabled) => op.swaps = 0
    /\ (Threw /\ Triggering) => op.swaps = 0

\* a write that changed the value, observed by two listeners in order
C11_Witness ==
    /\ Returned /\ op.kind = "write" /\ op.preEnabled
    /\ NotifiedListeners = <<1, 2>>
    /\ cell.current # Px(op.pre)
    /\ op.notified[2].seen = 2 /\ PreNum # 2

---------------------------------------------------------------------------
(* C12 as stated: every triggered operation ends in one of two outcomes,   *)
(* whichever step fails (clone hook, underlying operation or a listener):  *)
(* cell.current was swapped and every registered listener was called, or   *)
(* cell.current is unchanged and no listener was called.                   *)
C12_CommitOrDiscard ==
    (Finished /\ Triggering) =>
        \/ /\ op.swaps = 1
           /\ cell.current # Px(op.pre)
           /\ NotifiedListeners = cell.cloneListeners
        \/ /\ op.swaps = 0
           /\ cell.current = Px(op.pre)
           /\ op.notified = <<>>

(* C13: when the clone hook throws during a triggered clone the access     *)
(* throws to its caller after one call of the hook, the underlying         *)
(* operation is never started, no object is changed or created,            *)
(* cell.current is the surface it was, no listener is called, and enabled  *)
(* is true throughout.                                                     *)
C13_HookThrowsNothingHappens ==
    (op.status # "idle" /\ Triggering /\ cloneCallCallback = "throw") =>
        /\ cell.enabled
        /\ op.clones = <<>>
        /\ heap = op.preHeap
        /\ cell.current = Px(op.pre)
        /\ op.swaps = 0
        /\ op.notified = <<>>
        /\ ~Returned
        /\ Threw => (op.hookCalls = 1 /\ Len(op.extCalls) = 1)

\* after a first access that committed, the hook was made to throw and the
\* second access has thrown, with a listener registered
C13_Witness ==
    /\ Threw /\ Triggering /\ cloneCallCallback = "throw"
    /\ op.pre # 1
    /\ op.hookCalls = 1
    /\ Len(cell.cloneListeners) >= 1
    /\ cell.enabled

---------------------------------------------------------------------------
(* C14: in a run of successive non-exempt method calls, each made on the   *)
(* cell.current of its moment, every call makes one clone (one call of the *)
(* clone hook), one swap and one listener round; the instances form a      *)
(* chain in which instance k+1 is the clone the k-th call worked on, so    *)
(* cell.current carries the effect of the last call on top of all earlier  *)
(* ones; no instance changes once it was replaced (every object that       *)
(* existed when a call started is as it was); and cell.current is a Proxy  *)
(* surface again, so that the next call clones again.                      *)
C14_SuccessiveCallsEachCloneOnce ==
    /\ cell.current.px
    /\ (Returned /\ op.kind = "call") =>
          /\ OneCommit
          /\ op.hookCalls = 1
          /\ Len(heap) = Len(op.preHeap) + 1
          /\ CurNum = CallEffect(op.prop, op.arg, PreNum)
          /\ OldUntouched
          /\ op.pre = opsDone
          /\ cell.current = Px(opsDone + 1)
    /\ Idle =>
          /\ Len(heap) = opsDone + 1
          /\ cell.current = Px(Len(heap))
          /\ \A i \in 1..(Len(heap) - 1) :
                \E p \in SuccessiveCallProps, a \in Args :
                    heap[i + 1].number = CallEffect(p, a, heap[i].number)

\* MaxCalls calls of doubleIncrement: every instance of the chain still reports
\* the value it had when it was replaced
C14_Witness ==
    /\ Returned /\ op.kind = "call" /\ op.prop = "doubleIncrement"
    /\ opsDone = MaxCalls
    /\ Len(heap) = MaxCalls + 1
    /\ \A i \in 1..Len(heap) : heap[i].number = InitNumber + 2 * (i - 1)
    /\ cell.current = Px(Len(heap))
    /\ Len(op.notified) >= 1

---------------------------------------------------------------------------
(* C15: reading a stored member through cell.current, and reading a method *)
(* member without calling it, returns the stored value (or a function)     *)
(* and does nothing else: no clone, no object changed or created,          *)
(* cell.current as it was, no listener called, whether the cell is enabled *)
(* or not and whether the member is listed in nonMutatingKeys or not.      *)
C15_PlainReadDoesNothing ==
    (Finished /\ op.kind = "read" /\ op.prop \in {"number"} \cup Methods) =>
        /\ Returned
        /\ op.extCalls = <<>>
        /\ op.clones = <<>>
        /\ op.swaps = 0
        /\ op.notified = <<>>
        /\ cell.current = Px(op.pre)
        /\ heap = op.preHeap
        /\ op.prop = "number" => ret = Num(PreNum)
        /\ op.prop \in Methods => ret.t \in {"fn", "wrapper"} /\ ret.m = op.prop

\* a method read but not called, on an enabled cell with a listener, after an
\* earlier access that committed
C15_Witness ==
    /\ Returned /\ op.kind = "read" /\ op.prop = "increment"
    /\ op.preEnabled /\ op.prop \notin op.preKeys
    /\ ret = WrapperVal(op.pre, "increment")
    /\ op.pre # 1
    /\ Len(cell.cloneListeners) >= 1
    /\ heap = op.preHeap

---------------------------------------------------------------------------
(* C16: on an enabled cell the member named clone is exempt without being  *)
(* listed in nonMutatingKeys.  Reading it through cell.current returns the *)
(* function and does nothing else; calling it runs the object's clone hook *)
(* once, with the surface as receiver and the caller's argument, and       *)
(* returns the new object the hook made; extClone is not called, no        *)
(* existing object changes, cell.current keeps its identity and no         *)
(* listener is called.                                                     *)
C16_CloneMemberAlwaysExempt ==
    (Finished /\ op.preEnabled /\ op.prop = "clone" /\ op.kind \in {"read", "call"}) =>
        /\ Returned
        /\ op.extCalls = <<>>
        /\ op.clones = <<>>
        /\ op.swaps = 0
        /\ op.notified = <<>>
        /\ cell.current = Px(op.pre)
        /\ OldUntouched
        /\ op.kind = "read" =>
              /\ op.hookCalls = 0
              /\ heap = op.preHeap
              /\ ret = FnVal("clone")
        /\ op.kind = "call" =>
              /\ op.hookCalls = 1
              /\ op.hookLog = <<[arg |-> op.arg, res |-> Len(heap)]>>
              /\ Len(heap) = Len(op.preHeap) + 1
              /\ heap[Len(heap)].number = PreNum
              /\ ret = RefVal(Raw(Len(heap)))

\* clone called on the surface a commit installed, not listed, with a listener
C16_Witness ==
    /\ Returned /\ op.kind = "call" /\ op.prop = "clone"
    /\ op.preEnabled /\ "clone" \notin op.preKeys
    /\ op.pre # 1
    /\ Len(cell.cloneListeners) >= 1
    /\ op.hookCalls = 1
    /\ cell.current = Px(op.pre)

---------------------------------------------------------------------------
\* number of extClone calls an access makes, given the enabled flag and the
\* nonMutatingKeys the cell had when the access was made; a wrapper that was
\* read earlier clones when it is called
ExpectedClones(o) ==
    IF o.kind = "invoke" THEN 1
    ELSE IF ~o.preEnabled THEN 0
    ELSE IF o.kind = "write" THEN 1
    ELSE IF o.prop \in o.preKeys THEN BodyTriggers(o.kind, o.prop)
    ELSE IF o.kind = "read" /\ o.prop \notin Getters THEN 0
    ELSE 1

(* C17: the traps read enabled, depth, respectCustom and nonMutatingKeys   *)
(* from the cell at each access, so a value the caller stored takes effect *)
(* on the next access: every clone of an access is made from the current   *)
(* instance with the depth and respectCustom the cell holds at that        *)
(* moment (the hook receives that depth, and is not called when            *)
(* respectCustom is false), and whether the access clones at all follows   *)
(* the enabled flag and the nonMutatingKeys of that moment.  A wrapper     *)
(* read before a change of depth or respectCustom and called after it      *)
(* clones with the new values.                                             *)
C17_ConfigReadAtEachAccess ==
    (op.status # "idle") =>
        /\ op.preCfg = CfgOf(cell)
        /\ op.kind # "invoke" => op.preEnabled = (cell.enabled \/ InOp)
        /\ op.preKeys = cell.nonMutatingKeys
        /\ \A i \in DOMAIN op.extCalls :
              /\ op.extCalls[i].obj = op.pre
              /\ op.extCalls[i].depth = cell.depth
              /\ op.extCalls[i].custom = cell.respectCustom
        /\ \A i \in DOMAIN op.hookLog : op.hookLog[i].arg = cell.depth
        /\ Finished =>
              /\ Len(op.extCalls) = ExpectedClones(op)
              /\ Len(op.hookLog) = IF cell.respectCustom THEN Len(op.extCalls) ELSE 0

\* a method was read at depth 1 with the hook respected; the caller then
\* stored depth 0 and respectCustom false, and the call of the wrapper has
\* cloned at depth 0 without the hook
C17_Witness ==
    /\ Returned /\ op.kind = "invoke" /\ op.preEnabled
    /\ op.prevCfg = [depth |-> DepthOf(1), custom |-> TRUE]
    /\ op.preCfg = [depth |-> DepthOf(0), custom |-> FALSE]
    /\ op.extCalls = <<[obj |-> op.pre, depth |-> DepthOf(0), custom |-> FALSE]>>
    /\ op.hookLog = <<>>
    /\ cell.current # Px(op.pre)

(* C20: for a value with a callable clone member, extClone called with     *)
(* respectCustom true calls the hook once, with the depth it was given     *)
(* (0, a positive bound or "max"), returns the object the hook returned    *)
(* and creates no other object; called with respectCustom false it never   *)
(* calls the hook and copies the value itself.                             *)
C20_HookGetsDepthAndDecides ==
    Finished =>
        /\ Len(op.clones) = Len(op.extCalls)
        /\ Len(heap) = Len(op.preHeap) + Len(op.extCalls)
        /\ \A i \in DOMAIN op.extCalls :
              IF op.extCalls[i].custom
              THEN /\ Len(op.hookLog) = Len(op.extCalls)
                   /\ op.hookLog[i].arg = op.extCalls[i].depth
                   /\ op.hookLog[i].res = op.clones[i].dst
                   /\ op.hookLog[i].res = Len(op.preHeap) + i
              ELSE /\ op.hookLog = <<>>
                   /\ op.clones[i].dst = Len(op.preHeap) + i

\* two accesses in a row that cloned through the hook, the first at depth 0 and
\* this one at depth 1
C20_Witness ==
    /\ Returned /\ Triggering
    /\ op.prevCfg = [depth |-> DepthOf(0), custom |-> TRUE]
    /\ op.pre = 2
    /\ op.extCalls = <<[obj |-> 2, depth |-> DepthOf(1), custom |-> TRUE]>>
    /\ op.hookLog = <<[arg |-> DepthOf(1), res |-> 3]>>
    /\ op.clones[1].dst = 3
    /\ Len(heap) = 3

---------------------------------------------------------------------------
(* Vocabulary for clones of graphs *)

Cloned == op.status = "returned" /\ op.kind = "extClone"
SourceObjects == 1..Len(op.preHeap)
SourceUnchanged == \A i \in SourceObjects : heap[i] = op.preHeap[i]
Members(i) == {heap[i][k] : k \in KeySet} \ {0}
AtLevel(r, l) == AtLevelIn(heap, r, l)
ReachableFrom(r) == ReachableIn(heap, r)

(* C18: without a clone hook, extClone at depth 0 returns a new root whose *)
(* members are those of the source root (composite members are the same    *)
(* objects); at depth "max" no object reachable from the result is an      *)
(* object of the source; at depth 1 the root and its direct composite      *)
(* members are new objects, and every composite member of a direct member  *)
(* (other than the root itself, when the root is its own member) is an     *)
(* object of the source.  The source is unchanged in each case.            *)
C18_DepthZeroMaxOne ==
    Cloned =>
        LET r == ret.r.id IN
        /\ r \notin SourceObjects
        /\ SourceUnchanged
        /\ op.arg = DepthOf(0) =>
              /\ heap[r] = op.preHeap[1]
              /\ Len(heap) = Len(op.preHeap) + 1
        /\ op.arg = DepthMax =>
              /\ ReachableFrom(r) \cap SourceObjects = {}
              /\ \A i \in DOMAIN heap : \A k \in KeySet :
                    i \notin SourceObjects => (heap[i][k] = 0 \/ heap[i][k] \notin SourceObjects)
        /\ op.arg = DepthOf(1) =>
              /\ Members(r) \cap SourceObjects = {}
              /\ \A k \in KeySet : (heap[r][k] = 0) <=> (op.preHeap[1][k] = 0)
              /\ \A i \in Members(r) \ {r} : Members(i) \subseteq SourceObjects

\* depth 1 on a chain root -> mid -> deep: mid is copied, deep is shared
C18_Witness ==
    /\ Cloned /\ op.arg = DepthOf(1)
    /\ op.preHeap[1]["a"] = 2 /\ op.preHeap[2]["a"] = 3 /\ op.preHeap[3]["a"] = 0
    /\ op.preHeap[1]["b"] = 0 /\ op.preHeap[2]["b"] = 0 /\ op.preHeap[3]["b"] = 0
    /\ heap[ret.r.id]["a"] \notin SourceObjects
    /\ heap[heap[ret.r.id]["a"]]["a"] = 3

(* C19 as stated: for every positive depth d and every object graph, also  *)
(* one where an object is reachable by paths of different lengths, the     *)
(* result of extClone without a hook has no object of the source at any    *)
(* level <= d along any path from its root, and the source is unchanged.   *)
C19_IndependentDownToDepth ==
    (Cloned /\ ~op.arg.max /\ op.arg.n >= 1) =>
        /\ SourceUnchanged
        /\ \A l \in 0..op.arg.n : AtLevel(ret.r.id, l) \cap SourceObjects = {}

---------------------------------------------------------------------------
\* what a callback of MutCallbacks does to the number of the object it gets
CallbackEffect(cb, n) ==
    IF cb.path = "set" THEN WriteEffect(cb.prop, cb.arg, n) ELSE CallEffect(cb.prop, cb.arg, n)

(* C21: immutableMut(value, cb, respectCustom) calls extClone once, on     *)
(* value at depth "max" with the respectCustom it was given (so the hook   *)
(* runs once when it is true and never when it is false), calls cb once    *)
(* with the clone and returns that clone, which carries cb's changes; the  *)
(* result is a new instance, value and every other older instance are      *)
(* unchanged, the cell keeps its current surface and its enabled flag and  *)
(* no listener is called.                                                  *)
C21_ImmutableMutClonesOnceForCallback ==
    (op.status # "idle" /\ op.kind = "mut") =>
        /\ cell.current = Px(1)
        /\ cell.enabled
        /\ op.swaps = 0
        /\ op.notified = <<>>
        /\ op.extCalls = <<[obj |-> op.pre, depth |-> DepthMax,
                            custom |-> op.arg.respectCustom]>>
        /\ Len(op.cbLog) <= 1
        /\ Finished =>
              /\ Returned
              /\ ret.t = "ref" /\ ~ret.r.px
              /\ op.cbLog = <<ret.r.id>>
              /\ op.clones = <<[src |-> op.pre, dst |-> ret.r.id, path |-> "mut",
                                prop |-> op.prop]>>
              /\ op.hookLog = IF op.arg.respectCustom
                              THEN <<[arg |-> DepthMax, res |-> ret.r.id]>>
                              ELSE <<>>
              /\ ret.r.id # op.pre
              /\ ret.r.id = Len(op.preHeap) + 1
              /\ Len(heap) = Len(op.preHeap) + 1
              /\ OldUntouched
              /\ heap[ret.r.id].number = CallbackEffect(op.arg.cb, PreNum)

\* the result of an earlier immutableMut is given to the next one, whose
\* callback calls a method, without the hook and with a listener registered
C21_Witness ==
    /\ Returned /\ op.kind = "mut"
    /\ op.pre > 1 /\ PreNum # InitNumber
    /\ op.arg.cb.prop = "increment" /\ ~op.arg.respectCustom
    /\ heap[ret.r.id].number = PreNum + 1
    /\ heap[op.pre].number = PreNum
    /\ Len(cell.cloneListeners) >= 1

---------------------------------------------------------------------------
\* the object k steps up the prototype chain of o ("null" past its end)
RECURSIVE Ancestor(_, _)
Ancestor(o, k) ==
    IF k = 0 \/ o = "null" THEN o ELSE Ancestor(heap[o].proto, k - 1)

\* the distances at which the chain of o has an object with an own member prop
OwnerDistances(o, prop) ==
    {k \in 0..(ChainLen - 1) :
        /\ Ancestor(o, k) # "null"
        /\ prop = MemberName
        /\ heap[Ancestor(o, k)].own.has}

NearestDistance(o, prop) ==
    CHOOSE k \in OwnerDistances(o, prop) : \A j \in OwnerDistances(o, prop) : k <= j

(* C22: isGetter(object, name) returns a value for every finite prototype  *)
(* chain, decided by the nearest object of the chain that has an own       *)
(* member called name: true iff that member has a getter; false when it is *)
(* a stored value, a method or an accessor without a getter; false when no *)
(* object of the chain has the member.                                     *)
C22_IsGetterNearestOwner ==
    (Returned /\ op.kind = "isGetter") =>
        /\ ret.t = "bool"
        /\ IF OwnerDistances(op.arg, op.prop) = {}
           THEN ret = Bool(FALSE)
           ELSE LET owner == heap[Ancestor(op.arg, NearestDistance(op.arg, op.prop))].own
                IN /\ ret = Bool(owner.get)
                   /\ owner.data => ret = Bool(FALSE)
                   /\ (~owner.data /\ ~owner.get) => ret = Bool(FALSE)

\* the object has no such member, its prototype has a getter and the object
\* after that a stored value: the getter decides
C22_Witness ==
    /\ Returned /\ op.kind = "isGetter"
    /\ op.arg = ChainObject(1) /\ op.prop = MemberName
    /\ heap[ChainObject(1)] = [proto |-> ChainObject(2), own |-> NoDesc]
    /\ heap[ChainObject(2)] = [proto |-> ChainObject(3), own |-> AccDesc(TRUE, FALSE)]
    /\ heap[ChainObject(3)].own = DataDesc(FALSE)
    /\ ret = Bool(TRUE)

---------------------------------------------------------------------------
\* the number after the further calls of a chained expression
RECURSIVE ChainEffect(_, _)
ChainEffect(chain, n) ==
    IF chain = <<>> THEN n
    ELSE ChainEffect(Tail(chain), CallEffect(Head(chain).prop, Head(chain).arg, n))

(* C23: a chain of method calls written as one expression on cell.current, *)
(* each method returning its receiver, makes one clone (one call of the    *)
(* clone hook), replaces cell.current once, by the surface of that clone,  *)
(* calls each listener once, and leaves in cell.current the effect of      *)
(* every call of the chain; the earlier instances are unchanged.           *)
C23_ChainClonesOnce ==
    /\ (op.kind = "call" /\ op.chain # <<>>) =>
          /\ Len(op.clones) = 1
          /\ op.swaps = 1
          /\ NotifiedListeners = cell.cloneListeners
    /\ (Returned /\ op.kind = "call" /\ op.chain # <<>>) =>
          /\ OneCommit
          /\ cell.current # Px(op.pre)
          /\ op.hookCalls = 1
          /\ Len(heap) = Len(op.preHeap) + 1
          /\ OldUntouched
          /\ CurNum = ChainEffect(op.chain, CallEffect(op.prop, op.arg, PreNum))

\* increment(1).increment(1).doubleIncrement(1) as the second expression, with
\* two listeners registered
C23_Witness ==
    /\ Returned /\ op.kind = "call" /\ op.prop = "increment"
    /\ op.chain = <<[prop |-> "increment", arg |-> 1], [prop |-> "doubleIncrement", arg |-> 1]>>
    /\ op.pre # 1
    /\ CurNum = PreNum + 4
    /\ Len(op.clones) = 1
    /\ NotifiedListeners = <<1, 2>>

---------------------------------------------------------------------------
\* a method wrapper is making its call: cloned[prop](...args) has not returned
WrapperCalling(f) == f.k = "trig" /\ f.path = "call" /\ f.ph = "op"

---------------------------------------------------------------------------
Max(a, b) == IF a >= b THEN a ELSE b

(* C25: satisfiesDepth(depth, value) is true for every value when depth is *)
(* "max"; otherwise it is value <= max(depth, 0), a negative depth         *)
(* counting as 0.                                                          *)
C25_SatisfiesDepthClamps ==
    (Returned /\ op.kind = "satisfiesDepth") =>
        /\ op.arg.depth.max => ret = Bool(TRUE)
        /\ ~op.arg.depth.max => ret = Bool(op.arg.value <= Max(op.arg.depth.n, 0))

\* a negative depth and the value 0: the depth counts as 0
C25_Witness ==
    /\ Returned /\ op.kind = "satisfiesDepth"
    /\ op.arg = [depth |-> DepthOf(0 - DepthRange), value |-> 0]
    /\ ret = Bool(TRUE)

---------------------------------------------------------------------------
\* the value at the end of a path of keys from object o (0 past a primitive)
RECURSIVE Follow(_, _, _)
Follow(h, o, path) ==
    IF path = <<>> \/ o = 0 THEN o
    ELSE Follow(h, h[o][Head(path)], Tail(path))

\* the paths of up to one key more than the largest depth bound
Paths == UNION {[1..n -> KeySet] : n \in 0..(MaxDepth + 1)}

(* C26 as stated: for a positive depth bound, when an object of the source *)
(* is reachable from the root by two paths, the two corresponding          *)
(* positions of the result hold one and the same object, and that object   *)
(* is a clone whenever one of the paths is within the depth bound, also    *)
(* when the other path is longer than the bound.                           *)
C26_AliasesShareOneClone ==
    (Cloned /\ ~op.arg.max /\ op.arg.n >= 1) =>
        \A p, q \in Paths :
            (/\ Follow(op.preHeap, 1, p) # 0
             /\ Follow(op.preHeap, 1, p) = Follow(op.preHeap, 1, q)) =>
                /\ Follow(heap, ret.r.id, p) = Follow(heap, ret.r.id, q)
                /\ (Len(p) <= op.arg.n \/ Len(q) <= op.arg.n) =>
                      Follow(heap, ret.r.id, p) \notin SourceObjects

---------------------------------------------------------------------------
(* C27 as stated: extClone with a positive depth bound returns a result on *)
(* every finite object graph, cyclic ones included, and a cycle that lies  *)
(* within the depth bound (a path from the root of at most depth keys that *)
(* comes back to an object it has passed) is a cycle among the clones: the *)
(* back-reference of the result points at the clone, not at the original.  *)
C27_CycleWithinBoundIsCycleOfClones ==
    (op.kind = "extClone" /\ ~op.arg.max /\ op.arg.n >= 1) =>
        /\ Cloned
        /\ \A p \in Paths : \A k \in 0..(Len(p) - 1) :
              (/\ Len(p) <= op.arg.n
               /\ Follow(op.preHeap, 1, p) # 0
               /\ Follow(op.preHeap, 1, p) = Follow(op.preHeap, 1, SubSeq(p, 1, k))) =>
                  /\ Follow(heap, ret.r.id, p) = Follow(heap, ret.r.id, SubSeq(p, 1, k))
                  /\ Follow(heap, ret.r.id, p) \notin SourceObjects

---------------------------------------------------------------------------
(* Vocabulary for accesses on kept values *)

OnHeld == op.kind \in {"heldwrite", "heldcall", "invoke"}

\* the target of the surface (or of the surface a wrapper was read from)
\* through which the access is made
SurfaceTarget == IF OnHeld THEN held.r.id ELSE op.pre

AccessEffect(o, n) ==
    IF o.kind \in {"write", "heldwrite"} THEN WriteEffect(o.prop, o.arg, n)
    ELSE CallEffect(o.prop, o.arg, n)

(* C28: every triggered clone is taken of the target of the surface        *)
(* through which the access is made, not of the cell's current value.  A   *)
(* write or method call through a surface kept from before later commits,  *)
(* or a call of a wrapper read from it, replaces cell.current by a clone   *)
(* of that older instance with the new change applied: cell.current then   *)
(* reports the older instance's value with that change, whatever the       *)
(* commits in between had made of it.                                      *)
C28_CloneOfSurfaceTarget ==
    (op.status # "idle") =>
        /\ \A i \in DOMAIN op.extCalls : op.extCalls[i].obj = SurfaceTarget
        /\ \A i \in DOMAIN op.clones : op.clones[i].src = SurfaceTarget
        /\ (Returned /\ op.clones # <<>>) =>
              /\ Len(op.clones) = 1
              /\ op.swaps = 1
              /\ cell.current = Px(op.clones[1].dst)
              /\ OldUntouched
              /\ CurNum = AccessEffect(op, op.preHeap[SurfaceTarget].number)

\* a wrapper read from the first surface is called after a write through
\* cell.current has committed the value 2: cell.current becomes a clone of the
\* first instance, incremented, and the 2 is gone
C28_Witness ==
    /\ Returned /\ op.kind = "invoke"
    /\ held = WrapperVal(1, "increment")
    /\ op.pre = 2 /\ PreNum = 2
    /\ op.clones[1].src = 1
    /\ cell.current = Px(3)
    /\ CurNum = InitNumber + 1
    /\ heap[2].number = 2

---------------------------------------------------------------------------
(* C29: whether a method call clones is decided when the method member is  *)
(* read.  The wrapper the get trap returned on an enabled cell does not    *)
(* look at enabled when it is called: called after the caller has set      *)
(* enabled = false it still clones the instance it was read from, swaps    *)
(* cell.current to that clone's surface, calls every listener, and leaves  *)
(* enabled = true, overriding the caller's setting.                        *)
C29_WrapperClonesWhateverEnabled ==
    /\ (op.status = "running" /\ op.kind = "invoke") => Len(op.extCalls) = 1
    /\ (Finished /\ op.kind = "invoke") =>
          /\ Returned
          /\ op.extCalls = <<[obj |-> held.r.id, depth |-> cell.depth,
                              custom |-> cell.respectCustom]>>
          /\ Len(op.clones) = 1
          /\ op.swaps = 1
          /\ cell.current = Px(op.clones[1].dst)
          /\ cell.current # Px(op.pre)
          /\ NotifiedListeners = cell.cloneListeners
          /\ cell.enabled
          /\ CurNum = CallEffect(op.prop, op.arg, op.preHeap[held.r.id].number)
    /\ held.t = "wrapper" => held.r.id \in DOMAIN heap

\* the wrapper was called on a cell the caller had disabled, with a listener
C29_Witness ==
    /\ Returned /\ op.kind = "invoke"
    /\ ~op.preEnabled
    /\ cell.enabled
    /\ Len(op.clones) = 1
    /\ cell.current # Px(op.pre)
    /\ Len(op.notified) >= 1
    /\ CurNum = PreNum + 1

---------------------------------------------------------------------------
\* the methods of the wrapped class that return their receiver
ReturnsReceiver == {"increment", "doubleIncrement", "setViaProperty", "viaCell"}

\* the caller's variable holds a raw object, not a surface
HeldRaw == held.t = "ref" /\ ~held.r.px

(* C30: a committed method call returns the method's own result unwrapped. *)
(* When the method returns its receiver the caller gets the raw clone that *)
(* is the target of the new cell.current (and a number when the method     *)
(* returns one).  A later write or call on that returned object changes    *)
(* the object in place with no clone, no change of cell.current's identity *)
(* and no listener call; while cell.current is still the surface of that   *)
(* object, what cell.current reports changes with it.                      *)
C30_ReturnedReceiverIsRawTarget ==
    /\ (Returned /\ op.kind = "call" /\ Triggering) =>
          /\ op.prop \in ReturnsReceiver =>
                /\ ret = RefVal(Raw(op.clones[1].dst))
                /\ ret.r.id = cell.current.id
                /\ ~ret.r.px
          /\ op.prop = "doubleValue" => ret = Num(2 * CurNum)
    /\ (Finished /\ HeldRaw /\ op.kind \in {"heldwrite", "heldcall"}) =>
          /\ Returned
          /\ op.extCalls = <<>>
          /\ op.clones = <<>>
          /\ op.swaps = 0
          /\ op.notified = <<>>
          /\ cell.current = Px(op.pre)
          /\ Len(heap) = Len(op.preHeap)
          /\ heap[held.r.id].number = AccessEffect(op, op.preHeap[held.r.id].number)
          /\ held.r.id = cell.current.id => CurNum = AccessEffect(op, PreNum)
          /\ \A i \in DOMAIN heap : i # held.r.id => heap[i] = op.preHeap[i]

\* a write on the object a committed call returned, on an enabled cell with a
\* listener: cell.current reports the written value and is the same surface
C30_Witness ==
    /\ Returned /\ op.kind = "heldwrite" /\ HeldRaw
    /\ op.preEnabled
    /\ held.r.id = cell.current.id /\ held.r.id # 1
    /\ cell.current = Px(op.pre)
    /\ Len(cell.cloneListeners) >= 1
    /\ op.notified = <<>>
    /\ PreNum # 2 /\ CurNum = 2

---------------------------------------------------------------------------
(* Listeners that write and call through the cell *)

ListenerBodies == {"stepListener", "callListener", "alwaysListener", "pushListener"}
IsListenerFrame(f) == f.k = "body" /\ f.m \in ListenerBodies
InRound(f) == f.k = "trig" /\ f.ph = "notify"

\* the listeners called in the round made for clone r, in the order of the calls
RoundOf(r) ==
    LET called == SelectSeq(op.notified, LAMBDA e : e.round = r)
    IN [i \in 1..Len(called) |-> called[i].l]

ListenersUpTo(n) == [i \in 1..n |-> cell.cloneListeners[i]]

\* a call of the round of clone r follows calls of the round of a later clone
ResumedAfterNested ==
    \E i, j, k \in DOMAIN op.notified :
        /\ i < j /\ j < k
        /\ op.notified[i].round = op.notified[k].round
        /\ op.notified[j].round > op.notified[i].round

\* C31: listeners are called with the cell enabled and over the list as it is
\* at each call: a listener that writes or calls through cell.current starts a
\* commit of its own inside its call (a clone, a swap and a round over every
\* listener of the list), which is complete before the round that called the
\* listener goes on, so cell.current changes more than once in one external
\* operation; an operation in which a listener that writes at every call was
\* called never returns.
C31_ListenersRunNestedCommits ==
    /\ \A i \in DOMAIN stack :
          LET f == stack[i] IN
          \* a listener starts with the cell enabled
          /\ (i = Len(stack) /\ ~exc /\ (InRound(f) \/ (IsListenerFrame(f) /\ f.pc = 1)))
                => cell.enabled
          \* a round has called the listeners of the list as it is now, in order
          /\ InRound(f) => /\ f.pc - 1 <= Len(cell.cloneListeners)
                           /\ RoundOf(f.cloned) = ListenersUpTo(f.pc - 1)
          /\ (f.k = "trig" /\ ~InRound(f)) => RoundOf(f.cloned) = <<>>
          \* the commit a listener starts runs inside the call of that listener
          /\ (InRound(f) /\ i < Len(stack))
                => /\ IsListenerFrame(stack[i + 1])
                   /\ stack[i + 1].m = ListenerBody(cell.cloneListeners[f.pc - 1])
          /\ (f.k = "trig" /\ i > 1) => IsListenerFrame(stack[i - 1])
          /\ IsListenerFrame(f) => (i > 1 /\ InRound(stack[i - 1]))
    \* when a round goes on or ends, every clone made so far has been swapped in
    \* and every round started for a clone made after its own is complete
    /\ (stack # <<>> /\ ~exc /\ InRound(Top(stack)))
          => /\ op.swaps = Len(op.clones)
             /\ cell.current = Px(op.clones[Len(op.clones)].dst)
             /\ \A c \in DOMAIN op.clones :
                   op.clones[c].dst > Top(stack).cloned
                      => /\ Len(RoundOf(op.clones[c].dst)) >= Len(RoundOf(Top(stack).cloned))
                         /\ RoundOf(op.clones[c].dst)
                               = ListenersUpTo(Len(RoundOf(op.clones[c].dst)))
             /\ Top(stack).pc > Len(cell.cloneListeners)
                   => RoundOf(Top(stack).cloned) = cell.cloneListeners
    /\ Returned
          => /\ op.swaps = Len(op.clones)
             /\ \A c \in DOMAIN op.clones :
                   /\ Len(RoundOf(op.clones[c].dst)) >= 1 \/ cell.cloneListeners = <<>>
                   /\ RoundOf(op.clones[c].dst) = ListenersUpTo(Len(RoundOf(op.clones[c].dst)))
             /\ \A e \in DOMAIN op.notified :
                   ListenerBody(op.notified[e].l) # "alwaysListener"
    \* the stack runs out only under a listener that writes at every call
    /\ Threw => \E e \in DOMAIN op.notified :
                   ListenerBody(op.notified[e].l) = "alwaysListener"

\* an operation returned after a listener wrote through the cell: the cell was
\* swapped more than once and the outer round went on after the nested one
C31_Witness ==
    /\ Returned
    /\ op.swaps >= 2
    /\ Len(cell.cloneListeners) = 2
    /\ ResumedAfterNested
    /\ cell.current.id # op.clones[1].dst
    /\ RoundOf(op.clones[1].dst) = cell.cloneListeners
    /\ RoundOf(op.clones[2].dst) = cell.cloneListeners

---------------------------------------------------------------------------
(* Writes rejected by the object *)

\* the member has a getter and no setter: Reflect.set on it returns false
RejectsWrite(prop) ==
    LET desc == Lookup("inst", prop) IN desc.has /\ ~desc.data /\ ~desc.set

\* C32: a write that the underlying object rejects without throwing (a member
\* with a getter and no setter) on an enabled cell still commits: one clone is
\* made, it is left as the original is, cell.current is swapped to its new
\* surface, every listener is called once in order, and the write path returns
\* the failure result (false) of the underlying set.
C32_RejectedWriteStillCommits ==
    (Finished /\ op.kind = "write" /\ op.preEnabled /\ RejectsWrite(op.prop)) =>
        /\ Returned
        /\ ret = Bool(FALSE)
        /\ OneCommit
        /\ cell.current.id # op.pre
        /\ Len(heap) = Len(op.preHeap) + 1
        /\ heap[op.clones[1].dst] = op.preHeap[op.pre]
        /\ OldUntouched
        /\ \A i \in DOMAIN op.notified :
              /\ op.notified[i].cur = op.clones[1].dst
              /\ op.notified[i].seen = PreNum

\* a rejected write of a new value on a surface installed by an earlier write,
\* with two listeners registered
C32_Witness ==
    /\ Returned /\ op.kind = "write" /\ op.preEnabled /\ RejectsWrite(op.prop)
    /\ op.arg # PreNum
    /\ op.pre # 1
    /\ CurNum = PreNum
    /\ Len(cell.cloneListeners) = 2
    /\ Len(op.notified) = 2
    /\ cell.current = Px(op.clones[1].dst)
    /\ ret = Bool(FALSE)

---------------------------------------------------------------------------
(* extClone with a depth below zero *)

\* C33: extClone without a hook and with a negative numeric depth does what
\* it does at depth 0: the result is one new object with the members of the
\* source root, every composite member is the object of the source itself (the
\* root too, when it is its own member), no other object is created and the
\* source is unchanged.
C33_NegativeDepthLikeZero ==
    (Cloned /\ ~op.arg.max /\ op.arg.n < 0) =>
        LET r == ret.r.id
            zero == extCloneGraph(op.preHeap, 1, DepthOf(0), FALSE)
        IN /\ r \notin SourceObjects
           /\ Len(heap) = Len(op.preHeap) + 1
           /\ heap[r] = op.preHeap[1]
           /\ Members(r) \subseteq SourceObjects
           /\ SourceUnchanged
           /\ heap = zero.heap
           /\ r = zero.res

\* a negative depth on a chain root -> mid -> deep: mid itself is the member
\* of the result
C33_Witness ==
    /\ Cloned /\ ~op.arg.max /\ op.arg.n < 0
    /\ op.preHeap[1]["a"] = 2 /\ op.preHeap[2]["a"] = 3
    /\ heap[ret.r.id]["a"] = 2
    /\ heap[2]["a"] = 3
    /\ Len(heap) = NodeCount + 1

====
